---- MODULE Spec2Model ----
(***************************************************************************)
(* Extraction pipeline of msmw-aws: the extraction worker Lambda           *)
(* (backend/lambdas/extraction_worker/handler.py), its CSV extractor, the  *)
(* retry helper of the LLM clients, and the two DynamoDB tables and the S3 *)
(* bucket it works against.                                                *)
(*                                                                         *)
(* Text is modelled as a sequence of one-character strings so that         *)
(* lower(), strip() and the `in` substring test are computed.  A missing   *)
(* (None) or empty event field is the empty string "".                     *)
(***************************************************************************)
EXTENDS Integers, Sequences, FiniteSets, TLC

\* ------------------------------------------------------------------ bounds
MaxRows == 2          \* rows of a sales table
MaxInvocations == 2   \* invocations of the worker in the concurrent runs
MaxFaults == 1        \* failures the environment injects in the concurrent runs
MaxUploads == 2       \* requests the upload handler receives

\* ------------------------------------------------------- program constants
max_retries == 3      \* base_client.py: retry_with_backoff(max_retries=3)

\* ------------------------------------------------------------------- text
\* str.lower() on the characters that occur in the modelled headers
lower(c) ==
  CASE c = "D" -> "d" [] c = "P" -> "p" [] c = "Q" -> "q" [] c = "C" -> "c"
    [] c = "A" -> "a" [] c = "T" -> "t" [] c = "E" -> "e" [] c = "R" -> "r"
    [] c = "O" -> "o" [] c = "U" -> "u" [] c = "I" -> "i" [] c = "N" -> "n"
    [] c = "Y" -> "y"
    [] OTHER -> c

str_lower(s) == [k \in 1..Len(s) |-> lower(s[k])]

RECURSIVE str_lstrip(_)
str_lstrip(s) == IF s # <<>> /\ Head(s) = " " THEN str_lstrip(Tail(s)) ELSE s

RECURSIVE str_rstrip(_)
str_rstrip(s) ==
  IF s # <<>> /\ s[Len(s)] = " " THEN str_rstrip(SubSeq(s, 1, Len(s) - 1)) ELSE s

str_strip(s) == str_rstrip(str_lstrip(s))

\* Python's `sub in s` on strings
str_in(sub, s) ==
  \E k \in 0..(Len(s) - Len(sub)) : SubSeq(s, k + 1, k + Len(sub)) = sub

\* -------------------------------------------------- validate_json_response
\* The response text of the model is a sequence of tokens: the braces, the
\* quote, the colon and the comma of JSON, the digit "1", the word "x", one
\* whitespace character, the tag "json" and the code fence.
quote == "'"     \* stands for the double quote of JSON
fence == "FENCE"   \* stands for the three backticks of a code fence
tag == "json"

Min(S) == CHOOSE x \in S : \A y \in S : x <= y
Max(S) == CHOOSE x \in S : \A y \in S : y <= x

\* the first position from p on that holds no whitespace, Len(s) + 1 if none
SkipWs(s, p) ==
  LET js == {q \in p..Len(s) : s[q] # " "}
  IN IF js = {} THEN Len(s) + 1 ELSE Min(js)

\* str.find and str.rfind of one character: 0 stands for -1
str_find(s, c) ==
  LET js == {q \in 1..Len(s) : s[q] = c} IN IF js = {} THEN 0 ELSE Min(js)
str_rfind(s, c) ==
  LET js == {q \in 1..Len(s) : s[q] = c} IN IF js = {} THEN 0 ELSE Max(js)

NoMatch == [hit |-> FALSE, group |-> <<>>]

\* the pattern of line 86, fence (?:json)?\s*(\{.*?\})\s* fence, tried at
\* position a: the fence, the tag if it is there, whitespace, an opening
\* brace, and the nearest closing brace that whitespace and a fence follow
re_match_at(s, a) ==
  IF s[a] # fence THEN NoMatch
  ELSE LET b == IF a + 1 <= Len(s) /\ s[a + 1] = tag THEN a + 2 ELSE a + 1
           c == SkipWs(s, b)
           ends == {d \in c..Len(s) :
                      /\ s[d] = "}"
                      /\ SkipWs(s, d + 1) <= Len(s)
                      /\ s[SkipWs(s, d + 1)] = fence}
       IN IF c > Len(s) \/ s[c] # "{" \/ ends = {} THEN NoMatch
          ELSE [hit |-> TRUE, group |-> SubSeq(s, c, Min(ends))]

\* re.search: the match at the leftmost position that has one
re_search(s) ==
  LET as == {a \in 1..Len(s) : re_match_at(s, a).hit}
  IN IF as = {} THEN NoMatch ELSE re_match_at(s, Min(as))

\* json.loads on the tokens: the position after the value that starts at p,
\* 0 when no value starts there.  A value is a number, a string or an object.
StringEnd(s, p) ==
  LET js == {q \in (p + 1)..Len(s) : s[q] = quote}
  IN IF js = {} THEN 0 ELSE Min(js) + 1

NumberEnd(s, p) ==
  LET js == {q \in p..Len(s) : s[q] # "1"}
  IN IF js = {} THEN Len(s) + 1 ELSE Min(js)

RECURSIVE ValueEnd(_, _)
RECURSIVE MembersEnd(_, _)

ValueEnd(s, p) ==
  IF p > Len(s) THEN 0
  ELSE IF s[p] = "1" THEN NumberEnd(s, p)
  ELSE IF s[p] = quote THEN StringEnd(s, p)
  ELSE IF s[p] = "{" THEN
    LET q == SkipWs(s, p + 1)
    IN IF q <= Len(s) /\ s[q] = "}" THEN q + 1 ELSE MembersEnd(s, q)
  ELSE 0

\* the members of an object from the key at p up to its closing brace
MembersEnd(s, p) ==
  IF p > Len(s) \/ s[p] # quote THEN 0
  ELSE LET k == StringEnd(s, p)
           colon == IF k = 0 THEN 0 ELSE SkipWs(s, k)
           v == IF colon = 0 \/ colon > Len(s) \/ s[colon] # ":" THEN 0
                ELSE ValueEnd(s, SkipWs(s, colon + 1))
           next == IF v = 0 THEN 0 ELSE SkipWs(s, v)
       IN IF next = 0 \/ next > Len(s) THEN 0
          ELSE IF s[next] = "}" THEN next + 1
          ELSE IF s[next] = "," THEN MembersEnd(s, SkipWs(s, next + 1))
          ELSE 0

\* the parsed value, written as its tokens without the whitespace between them
RECURSIVE Canon(_, _)
Canon(s, inside) ==
  IF s = <<>> THEN <<>>
  ELSE IF Head(s) = quote THEN <<quote>> \o Canon(Tail(s), ~inside)
  ELSE IF Head(s) = " " /\ ~inside THEN Canon(Tail(s), inside)
  ELSE <<Head(s)>> \o Canon(Tail(s), inside)

JSONDecodeError == [ok |-> FALSE, kind |-> "", value |-> <<>>]

\* json.loads: one value with nothing but whitespace around it; a value
\* that is not an object is returned just the same
json_loads(s) ==
  LET p == SkipWs(s, 1)
      e == ValueEnd(s, p)
  IN IF e = 0 \/ SkipWs(s, e) <= Len(s) THEN JSONDecodeError
     ELSE [ok |-> TRUE,
           kind |-> IF s[p] = "{" THEN "object" ELSE "scalar",
           value |-> Canon(SubSeq(s, p, e - 1), FALSE)]

\* BaseLLMClient.validate_json_response; ok = FALSE is the ValueError
validate_json_response(response) ==
  LET json_match == re_search(response)
      fenced == IF json_match.hit THEN json_match.group ELSE response
      stripped == str_strip(fenced)
      start == str_find(stripped, "{")
      end == str_rfind(stripped, "}")
      sliced == IF start # 0 /\ end # 0 THEN SubSeq(stripped, start, end)
                ELSE stripped
  IN json_loads(sliced)

\* ---------------------------------------------------------------- decimals
\* decimal.Decimal: NaN, or the exact number v * 10^(-e) with its digits v
\* and its number of decimal places e (25.50 is v = 2550, e = 2).  The
\* modelled values stay far below the 28 digits of the default context, so
\* products and sums are not rounded.
DecE(n, places) == [nan |-> FALSE, v |-> n, e |-> places]
Dec(n) == DecE(n, 0)
DecNaN == [nan |-> TRUE, v |-> 0, e |-> 0]
DecMul(a, b) == IF a.nan \/ b.nan THEN DecNaN ELSE DecE(a.v * b.v, a.e + b.e)
DecAdd(a, b) ==
  IF a.nan \/ b.nan THEN DecNaN
  ELSE LET places == IF a.e > b.e THEN a.e ELSE b.e
       IN DecE(a.v * 10 ^ (places - a.e) + b.v * 10 ^ (places - b.e), places)

\* Decimal.__eq__: equal as numbers whatever the decimal places, and NaN is
\* equal to nothing
DecEq(a, b) == ~a.nan /\ ~b.nan /\ a.v * 10 ^ b.e = b.v * 10 ^ a.e

\* ------------------------------------------------------------------ tables
\* A cell of the file: a number as it is written (digits v, decimal places
\* e), a text that is not a number, or an empty cell, which pandas reads as
\* NaN.
Flt(n, places) == [k |-> "num", v |-> n, e |-> places]
Num(n) == Flt(n, 0)
Text == [k |-> "text", v |-> 0, e |-> 0]
NaN == [k |-> "nan", v |-> 0, e |-> 0]

\* str(float): the shortest text that reads back as the same float, with at
\* least one decimal place
RECURSIVE float_str(_)
float_str(cell) ==
  IF cell.e = 0 THEN Flt(cell.v * 10, 1)
  ELSE IF cell.e > 1 /\ cell.v % 10 = 0 THEN float_str(Flt(cell.v \div 10, cell.e - 1))
  ELSE cell

\* pd.read_csv: a column with a text cell is read as strings, a column of
\* numbers with an empty cell or a decimal point as float64, a column of
\* whole numbers as int64; the cell as str() then shows it
read_cell(rows, r, j) ==
  LET col == {rows[q][j] : q \in 1..Len(rows)}
      cell == rows[r][j]
  IN IF cell.k # "num" \/ \E c \in col : c.k = "text" THEN cell
     ELSE IF \E c \in col : c.k = "nan" \/ c.e > 0 THEN float_str(cell)
     ELSE cell

read_csv(file_data) ==
  [file_data EXCEPT !.rows =
     [r \in 1..Len(file_data.rows) |->
        [j \in 1..Len(file_data.rows[r]) |-> read_cell(file_data.rows, r, j)]]]

NoDec == [ok |-> FALSE, d |-> Dec(0)]

\* a conversion that takes text for zero instead of raising
Decimal_lenient(cell) ==
  [ok |-> TRUE, d |-> IF cell.k = "num" THEN DecE(cell.v, cell.e)
                      ELSE IF cell.k = "nan" THEN DecNaN ELSE Dec(0)]

\* Decimal(str(cell)): raises InvalidOperation on text, accepts "nan"
Decimal(cell) ==
  CASE cell.k = "num" -> [ok |-> TRUE, d |-> DecE(cell.v, cell.e)]
    [] cell.k = "nan" -> [ok |-> TRUE, d |-> DecNaN]
    [] OTHER -> NoDec

c_date == <<"d", "a", "t", "e">>
c_product == <<"p", "r", "o", "d", "u", "c", "t">>
c_quantity == <<"q", "u", "a", "n", "t", "i", "t", "y">>
c_price == <<"p", "r", "i", "c", "e">>

required == <<c_date, c_product, c_quantity, c_price>>

\* the inner loop of _extract_sales: index of the first column that matches
\* req in either direction, 0 when none does
FirstMatch(req, columns) ==
  LET hits == {j \in 1..Len(columns) :
                 str_in(req, columns[j]) \/ str_in(columns[j], req)}
  IN IF hits = {} THEN 0 ELSE CHOOSE j \in hits : \A h \in hits : j <= h

\* column_mapping, a dict from column name to canonical name, written in the
\* order of `required` (a later assignment to the same key overwrites)
RECURSIVE MappingUpTo(_, _)
MappingUpTo(n, columns) ==
  IF n = 0 THEN [c \in {} |-> c]
  ELSE LET m == MappingUpTo(n - 1, columns)
           j == FirstMatch(required[n], columns)
       IN IF j = 0 THEN m
          ELSE [c \in (DOMAIN m) \cup {columns[j]} |->
                  IF c = columns[j] THEN required[n] ELSE m[c]]

column_mapping(columns) == MappingUpTo(Len(required), columns)

\* df.columns.str.lower().str.strip()
normalize_columns(headers) ==
  [j \in 1..Len(headers) |-> str_strip(str_lower(headers[j]))]

\* df.rename(columns=column_mapping)
rename(columns, m) ==
  [j \in 1..Len(columns) |->
     IF columns[j] \in DOMAIN m THEN m[columns[j]] ELSE columns[j]]

\* row[name]: the cell when exactly one column has that name; a Series when
\* several do and a KeyError when none does, neither of which Decimal takes
RowGet(row, columns, name) ==
  LET js == {j \in 1..Len(columns) : columns[j] = name}
  IN IF Cardinality(js) = 1 THEN row[CHOOSE j \in js : TRUE] ELSE Text

c_customer == <<"c", "u", "s", "t", "o", "m", "e", "r">>
c_payment == <<"p", "a", "y", "m", "e", "n", "t">>
c_payment_mode == c_payment \o <<"_", "m", "o", "d", "e">>

\* the columns of a table as a set of names
ColumnNames(columns) == {columns[j] : j \in 1..Len(columns)}

\* lines 92-97: the optional keys a record gets, customer_name when a column
\* is named customer, payment_mode when one is named payment or payment_mode
optional_fields(columns) ==
  (IF c_customer \in ColumnNames(columns) THEN {"customer_name"} ELSE {})
  \cup (IF c_payment \in ColumnNames(columns)
           \/ c_payment_mode \in ColumnNames(columns)
        THEN {"payment_mode"} ELSE {})

\* one pass of the row loop of _extract_sales: the record, or ok = FALSE when
\* the row is skipped
sales_record(row, columns) ==
  LET qty == Decimal(RowGet(row, columns, c_quantity))
      price == Decimal(RowGet(row, columns, c_price))
  IN [ok |-> qty.ok /\ price.ok,
      rec |-> [quantity |-> qty.d, unit_price |-> price.d,
               total_amount |-> DecMul(qty.d, price.d),
               optional |-> optional_fields(columns)]]

RECURSIVE sales_records(_, _)
sales_records(rows, columns) ==
  IF rows = <<>> THEN <<>>
  ELSE LET r == sales_record(Head(rows), columns)
           rest == sales_records(Tail(rows), columns)
       IN IF r.ok THEN <<r.rec>> \o rest ELSE rest

RECURSIVE sum_total_amount(_)
sum_total_amount(recs) ==
  IF recs = <<>> THEN Dec(0)
  ELSE DecAdd(Head(recs).total_amount, sum_total_amount(Tail(recs)))

\* The value a dispatcher call yields: ok = FALSE with the message of the
\* exception, or the extracted data.  `sized` tells whether len() applies to
\* the data and `length` is that len().
NoData == [kind |-> "none", sized |-> TRUE, length |-> 0, records |-> <<>>,
           total_records |-> 0, total_amount |-> Dec(0)]
\* `found` is the column list that the message of the exception carries
RaiseFound(msg, columns) ==
  [ok |-> FALSE, error |-> msg, found |-> columns, data |-> NoData]
Raise(msg) == RaiseFound(msg, <<>>)
Return(d) == [ok |-> TRUE, error |-> "", found |-> <<>>, data |-> d]

\* an extraction that goes on with whatever columns resolved
extract_sales_unchecked(df) ==
  LET columns == normalize_columns(df.headers)
      recs == sales_records(df.rows, rename(columns, column_mapping(columns)))
  IN Return([kind |-> "sales", sized |-> TRUE, length |-> 3,
             records |-> recs, total_records |-> Len(recs),
             total_amount |-> sum_total_amount(recs)])

\* CSVExtractor._extract_sales
extract_sales(df) ==
  LET columns == normalize_columns(df.headers)
      m == column_mapping(columns)
      recs == sales_records(df.rows, rename(columns, m))
  IN IF Cardinality(DOMAIN m) < Len(required)
     THEN RaiseFound("Missing required columns", columns)
     ELSE Return([kind |-> "sales", sized |-> TRUE, length |-> 3,
                  records |-> recs, total_records |-> Len(recs),
                  total_amount |-> sum_total_amount(recs)])

\* rows with an empty cell are left out
to_dict_records_dropna(columns, rows) ==
  LET kept == SelectSeq(rows, LAMBDA row : \A j \in 1..Len(row) : row[j].k # "nan")
  IN [r \in 1..Len(kept) |->
        [c \in ColumnNames(columns) |->
           kept[r][Max({j \in 1..Len(columns) : columns[j] = c})]]]

\* df.to_dict('records'): one dict per row, keyed by column name; of several
\* columns with one name the last one gives the value
to_dict_records(columns, rows) ==
  [r \in 1..Len(rows) |->
     [c \in ColumnNames(columns) |->
        rows[r][Max({j \in 1..Len(columns) : columns[j] = c})]]]

\* isinstance(obj, float): the cells of a float64 column, NaN included
is_float(cell) == cell.k = "nan" \/ (cell.k = "num" /\ cell.e > 0)

\* CSVExtractor._convert_floats_to_decimals on the list of row dicts: every
\* float becomes Decimal(str(cell)), NaN included; the rest is left alone
convert_floats_to_decimals(records) ==
  [r \in 1..Len(records) |->
     [c \in DOMAIN records[r] |->
        IF is_float(records[r][c])
        THEN [k |-> "decimal", v |-> Decimal(records[r][c]).d]
        ELSE records[r][c]]]

\* CSVExtractor._extract_inventory
extract_inventory(df) ==
  LET columns == normalize_columns(df.headers)
      recs == convert_floats_to_decimals(to_dict_records(columns, df.rows))
  IN Return([kind |-> "inventory", sized |-> TRUE, length |-> 2,
             records |-> recs, total_records |-> Len(recs),
             total_amount |-> Dec(0)])

\* CSVExtractor.extract: bytes that pandas cannot read as a table raise
CSVExtractor_extract(file_data, file_type) ==
  IF file_data.kind # "table" THEN Raise("Error tokenizing data")
  ELSE IF file_type = "sales_csv" THEN extract_sales(read_csv(file_data))
  ELSE extract_inventory(read_csv(file_data))

\* boto3's serializer refuses Decimal NaN (TypeError), so put_item raises
\* before anything is sent
HasNaN(d) ==
  CASE d.kind = "sales" ->
         d.total_amount.nan
         \/ \E r \in 1..Len(d.records) :
              d.records[r].quantity.nan \/ d.records[r].unit_price.nan
    [] d.kind = "inventory" ->
         \E r \in 1..Len(d.records) : \E c \in DOMAIN d.records[r] :
            d.records[r][c].k = "decimal" /\ d.records[r][c].v.nan
    [] OTHER -> FALSE

\* ------------------------------------------------------------ handler.py
image_types == {"invoice_image", "receipt_image", "purchase_order_image"}
csv_types == {"sales_csv", "inventory_csv"}
document_types == {"bank_statement_pdf"}

\* GeminiClient.is_available / OpenAIClient.is_available
Gemini_is_available(e) == e.GEMINI_API_KEY
OpenAI_is_available(e) == e.OPENAI_API_KEY

\* a selection that falls back to OpenAI without asking whether it is available
get_llm_client_unchecked(e) ==
  IF Gemini_is_available(e) THEN "gemini" ELSE "openai"

\* a selection that lets LLM_PROVIDER choose between the available clients
get_llm_client_by_provider(e) ==
  IF e.LLM_PROVIDER = "openai" /\ OpenAI_is_available(e) THEN "openai"
  ELSE IF Gemini_is_available(e) THEN "gemini"
  ELSE IF OpenAI_is_available(e) THEN "openai"
  ELSE "none"

\* get_llm_client: Gemini first, OpenAI as the fallback, else None
get_llm_client(e) ==
  IF Gemini_is_available(e) THEN "gemini"
  ELSE IF OpenAI_is_available(e) THEN "openai"
  ELSE "none"

\* a type mapping that does not list the purchase order
get_data_type_unlisted(file_type) ==
  CASE file_type = "invoice_image" -> "invoice"
    [] file_type = "receipt_image" -> "receipt"
    [] file_type = "sales_csv" -> "sales"
    [] file_type = "inventory_csv" -> "inventory"
    [] file_type = "bank_statement_pdf" -> "bank_statement"
    [] OTHER -> "unknown"

\* get_data_type
get_data_type(file_type) ==
  CASE file_type = "invoice_image" -> "invoice"
    [] file_type = "purchase_order_image" -> "invoice"
    [] file_type = "receipt_image" -> "receipt"
    [] file_type = "sales_csv" -> "sales"
    [] file_type = "inventory_csv" -> "inventory"
    [] file_type = "bank_statement_pdf" -> "bank_statement"
    [] OTHER -> "unknown"

\* a method read off the extension alone: whatever is no CSV went to a model
get_extraction_method_by_extension(file_type) ==
  IF file_type = "sales_csv" THEN "csv_parse" ELSE "llm"

\* get_extraction_method: 'csv' in file_type, 'image' in file_type,
\* 'pdf' in file_type or 'doc' in file_type, over the modelled file types
get_extraction_method(file_type) ==
  IF file_type \in {"sales_csv", "inventory_csv"} THEN "csv_parse"
  ELSE IF file_type \in image_types THEN "llm"
  ELSE IF file_type \in {"bank_statement_pdf"} THEN "llm"
  ELSE "unknown"

\* ImageExtractor.extract and DocumentExtractor.extract: the capability of
\* the client that the extractor calls, once
ImageExtractor_extract == "extract_from_image"
DocumentExtractor_extract == "extract_from_text"

\* a routing that hands every other file type to the CSV extractor
extract_data_csv_fallback(file_type, llm_client) ==
  IF file_type \in image_types THEN
    IF llm_client = "none"
    THEN [route |-> "raise", error |-> "LLM client required for image extraction"]
    ELSE [route |-> ImageExtractor_extract, error |-> ""]
  ELSE IF file_type \in document_types THEN
    IF llm_client = "none"
    THEN [route |-> "raise", error |-> "LLM client required for document extraction"]
    ELSE [route |-> DocumentExtractor_extract, error |-> ""]
  ELSE [route |-> "csv", error |-> ""]

\* a routing that asks for the model client before it looks at the file type
extract_data_client_first(file_type, llm_client) ==
  IF file_type \notin image_types \cup csv_types \cup document_types
  THEN [route |-> "raise", error |-> "Unsupported file type"]
  ELSE IF llm_client = "none"
  THEN [route |-> "raise", error |-> "LLM client required for extraction"]
  ELSE IF file_type \in image_types THEN [route |-> ImageExtractor_extract, error |-> ""]
  ELSE IF file_type \in csv_types THEN [route |-> "csv", error |-> ""]
  ELSE [route |-> DocumentExtractor_extract, error |-> ""]

\* extract_data up to the call of the extractor: where the file type is
\* routed, or the exception raised before any extractor runs
extract_data(file_type, llm_client) ==
  IF file_type \in image_types THEN
    IF llm_client = "none"
    THEN [route |-> "raise", error |-> "LLM client required for image extraction"]
    ELSE [route |-> ImageExtractor_extract, error |-> ""]
  ELSE IF file_type \in csv_types THEN [route |-> "csv", error |-> ""]
  ELSE IF file_type \in document_types THEN
    IF llm_client = "none"
    THEN [route |-> "raise", error |-> "LLM client required for document extraction"]
    ELSE [route |-> DocumentExtractor_extract, error |-> ""]
  ELSE [route |-> "raise", error |-> "Unsupported file type"]

\* ------------------------------------------------------------------ state
VARIABLES
  env,        \* os.environ: which provider keys are configured
  reply,      \* the text the model backend answers with when it answers
  bucket,     \* the S3 bucket: key -> object
  uploads,    \* the Uploads table: <<store_id, upload_id>> -> item
  extracted,  \* the ExtractedData table: <<store_id, record_id>> -> item
  inv,        \* the invocations of lambda_handler: locals, position, result
  queue,      \* the events the Lambda service may deliver (at least once)
  deliveries, \* how many invocations the Lambda service will still start
  faults,     \* how many calls the environment will still make fail
  intake      \* the upload handler: its last upload key and its responses

vars == <<env, reply, bucket, uploads, extracted, inv, queue, deliveries, faults,
          intake>>

Invocations == 1..MaxInvocations

\* ------------------------------------------------------------ environment
P_sales == "raw/sales_csv/S1_sales.csv"
P_stock == "raw/sales_csv/S1_stock.csv"
P_empty == "raw/sales_csv/S1_empty.csv"
P_inv == "raw/invoices_images/S1_inv.jpg"
P_po == "raw/invoices_images/S1_po.jpeg"
P_rec == "raw/receipts_images/S1_rec.png"
P_bank == "raw/documents/S1_bank.pdf"
P_gone == "raw/documents/S1_gone.pdf"
P_docx == "raw/documents/S1_bank.docx"
P_note == "raw/documents/S1_note.txt"

Table(h, r) == [kind |-> "table", headers |-> h, rows |-> r]
Bytes == [kind |-> "bytes", headers |-> <<>>, rows |-> <<>>]
Empty == [kind |-> "empty", headers |-> <<>>, rows |-> <<>>]
\* bytes that neither PyPDF2 nor python-docx can read as a document
Corrupt == [kind |-> "corrupt", headers |-> <<>>, rows |-> <<>>]

\* file_name.lower().endswith(...) on the modelled paths
endswith(file_name, suffix) ==
  CASE suffix = ".pdf" -> file_name \in {P_bank, P_gone}
    [] suffix = ".docx" -> file_name = P_docx
    [] OTHER -> FALSE

\* file_data.decode('utf-8', errors='ignore'): whatever text the bytes give
decode_ignore(file_data) == "decoded bytes"

\* DocumentExtractor._extract_pdf_text: the text of the pages, or the empty
\* text when PdfReader or extract_text raises
extract_pdf_text(file_data) ==
  IF file_data.kind = "corrupt" THEN "" ELSE "text of the pages"

\* DocumentExtractor._extract_docx_text: the text of the paragraphs, or the
\* empty text when Document raises
extract_docx_text(file_data) ==
  IF file_data.kind = "corrupt" THEN "" ELSE "text of the paragraphs"

\* DocumentExtractor.extract, lines 37-44: the text handed to the client
document_text(file_data, file_name) ==
  IF endswith(file_name, ".pdf") THEN extract_pdf_text(file_data)
  ELSE IF endswith(file_name, ".docx") THEN extract_docx_text(file_data)
  ELSE decode_ignore(file_data)

\* headers as they stand in the file
h_Date == <<"D", "a", "t", "e">>
h_Product == <<" ", "P", "R", "O", "D", "U", "C", "T">>
h_Quantity == <<"Q", "u", "a", "n", "t", "i", "t", "y", " ">>
h_Price == <<"u", "n", "i", "t", "_", "P", "r", "i", "c", "e">>
h_Qty == <<"Q", "t", "y">>
h_PRICE == <<"P", "R", "I", "C", "E", " ">>

h_Customer == <<"C", "u", "s", "t", "o", "m", "e", "r">>
h_customer_name == c_customer \o <<"_", "n", "a", "m", "e">>
h_payment == <<"p", "a", "y", "m", "e", "n", "t">>
h_payment_mode == <<"p", "a", "y", "m", "e", "n", "t", "_", "m", "o", "d", "e">>
h_product_price == c_product \o <<"_">> \o c_price

Headers == {<<h_Date, h_Product, h_Quantity, h_Price>>,
            <<h_Price, h_Quantity, h_Product, h_Date>>,
            <<h_Date, h_Product, h_Qty, h_PRICE>>,
            <<h_Date, h_Product, h_Quantity>>,
            <<h_Date, h_Product, h_Quantity, h_Price, h_Customer, h_payment_mode>>,
            <<h_Date, h_Product, h_Quantity, h_Price, h_customer_name, h_payment>>,
            <<h_Date, h_product_price, h_Quantity, h_Price>>,
            <<h_Date, h_Product, h_Quantity, h_Price, h_PRICE>>,
            <<h_product_price, h_Date, h_Product, h_Quantity, h_PRICE>>}

RECURSIVE SeqsUpTo(_, _)
SeqsUpTo(S, n) ==
  IF n = 0 THEN {<<>>}
  ELSE LET shorter == SeqsUpTo(S, n - 1)
       IN shorter \cup {Append(q, x) : q \in {t \in shorter : Len(t) = n - 1}, x \in S}

\* a row of a sales table: its quantity and its price
RowKinds == {<<Num(2), Num(5)>>, <<Num(10), Flt(2550, 2)>>, <<Num(2), Text>>,
             <<Text, Num(5)>>, <<Num(2), NaN>>}

\* lay a (quantity, price) pair out under the headers h
LayOut(h, qp) ==
  [j \in 1..Len(h) |->
     IF h[j] \in {h_Quantity, h_Qty} THEN qp[1]
     ELSE IF h[j] \in {h_Price, h_PRICE} THEN qp[2]
     ELSE Text]

SalesTables(n) ==
  {Table(h, [r \in 1..Len(q) |-> LayOut(h, q[r])]) :
     h \in Headers, q \in SeqsUpTo(RowKinds, n)}

\* the sales tables of the concurrent runs
CoreTables ==
  {Table(h, [r \in 1..Len(q) |-> LayOut(h, q[r])]) :
     h \in {<<h_Date, h_Product, h_Quantity, h_Price>>},
     q \in {<<<<Num(2), Num(5)>>, <<Num(2), Text>>>>}}

StockTable == Table(<<h_Product, h_Qty>>, <<<<Text, Num(5)>>, <<Text, NaN>>>>)

\* inventory tables: two columns, or two columns whose names are the same
\* once lower-cased and trimmed; rows of text, whole numbers, decimals and
\* empty cells
h_qty == <<"q", "t", "y", " ">>
StockHeaders == {<<h_Product, h_Qty>>, <<h_Qty, h_qty>>}
StockRows == {<<Text, Num(5)>>, <<Text, NaN>>, <<NaN, NaN>>, <<Text, Flt(2550, 2)>>}
InventoryTables(n) ==
  {Table(h, q) : h \in StockHeaders, q \in SeqsUpTo(StockRows, n)}

Stores == {"S1"}
UploadIds == {"U_sales", "U_stock", "U_empty", "U_inv", "U_po", "U_rec",
              "U_bank", "U_gone", "U_docx", "U_note", "U_video"}
Keys == Stores \X UploadIds

Event(u, s, p, t) ==
  [is_dict |-> TRUE, upload_id |-> u, store_id |-> s, s3_path |-> p,
   file_type |-> t]
NullEvent ==
  [is_dict |-> FALSE, upload_id |-> "", store_id |-> "", s3_path |-> "",
   file_type |-> ""]

\* work items with all four fields
WellFormed ==
  {Event("U_sales", "S1", P_sales, "sales_csv"),
   Event("U_stock", "S1", P_stock, "inventory_csv"),
   Event("U_empty", "S1", P_empty, "sales_csv"),
   Event("U_inv", "S1", P_inv, "invoice_image"),
   Event("U_po", "S1", P_po, "purchase_order_image"),
   Event("U_rec", "S1", P_rec, "receipt_image"),
   Event("U_bank", "S1", P_bank, "bank_statement_pdf"),
   Event("U_gone", "S1", P_gone, "bank_statement_pdf"),
   Event("U_docx", "S1", P_docx, "bank_statement_pdf"),
   Event("U_note", "S1", P_note, "bank_statement_pdf"),
   Event("U_video", "S1", P_inv, "video_mp4")}

\* events with a field missing, and an event that is no mapping at all
Malformed ==
  {Event("", "S1", P_sales, "sales_csv"),
   Event("U_sales", "", P_sales, "sales_csv"),
   Event("U_sales", "S1", "", "sales_csv"),
   Event("U_inv", "S1", P_inv, ""),
   NullEvent}

CoreItems ==
  {Event("U_sales", "S1", P_sales, "sales_csv"),
   Event("U_inv", "S1", P_inv, "invoice_image"),
   Event("U_sales", "S1", "", "sales_csv")}

\* --------------------------------------------------------------- the tables
NoRecord ==
  [present |-> FALSE, store_id |-> "", record_id |-> "", type |-> "",
   data |-> NoData, extraction_method |-> ""]

\* how a call to S3 or DynamoDB ends: it succeeds, raises
\* botocore.exceptions.ClientError, or raises an exception that is not a
\* ClientError (EndpointConnectionError, ReadTimeoutError, ...)
Outcomes == {"ok", "ClientError", "Error"}
ConnectionError == "Could not connect to the endpoint URL"

\* how one call of the model backend ends: it answers with the text of this
\* behaviour, it times out, or it answers this once with text that holds no
\* JSON
ModelOutcomes == {"answer", "timed out", "no json"}

\* gemini_client.py:84-92: the value validate_json_response returned, or
\* the ValueError it raised
extract_result(v) ==
  IF v.ok THEN [ok |-> TRUE, res |-> v.kind, value |-> v.value]
  ELSE [ok |-> FALSE, res |-> "Invalid JSON response from LLM", value |-> <<>>]

\* _extract of a client: the call of the backend, then validate_json_response
\* on the text of the answer.  `res` is the kind of the value returned
\* ("object", or "scalar" for JSON that is not an object) or the message of
\* the exception raised.
extract_once(o, text) ==
  [how |-> o] @@
  (IF o = "timed out" THEN [ok |-> FALSE, res |-> "timed out", value |-> <<>>]
   ELSE IF o = "no json" THEN extract_result(validate_json_response(<<"x">>))
   ELSE extract_result(validate_json_response(text)))

LlmData(o) ==
  [kind |-> "llm", sized |-> (o = "object"), length |-> 1, records |-> <<>>,
   total_records |-> 0, total_amount |-> Dec(0)]

\* table.update_item of update_upload_status: DynamoDB rejects a key with a
\* missing or empty attribute (ValidationException, a ClientError)
update_item_outcome(key, o) == IF key \in Keys THEN o ELSE "ClientError"

\* a status update that reaches every upload of the store
update_upload_status_by_store(tbl, key, status, error_message, o) ==
  IF update_item_outcome(key, o) = "ok"
  THEN [k \in DOMAIN tbl |->
          IF k[1] = key[1]
          THEN [status |-> status,
                error_message |-> IF error_message # "" THEN error_message
                                  ELSE tbl[k].error_message]
          ELSE tbl[k]]
  ELSE tbl

\* update_upload_status: the Uploads table after the call; error_message is
\* only SET when one is given
update_upload_status(tbl, key, status, error_message, o) ==
  IF update_item_outcome(key, o) = "ok"
  THEN [tbl EXCEPT ![key] =
          [status |-> status,
           error_message |-> IF error_message # "" THEN error_message
                             ELSE @.error_message]]
  ELSE tbl

\* update_upload_status catches ClientError only
update_upload_status_raises(key, o) == update_item_outcome(key, o) = "Error"

\* s3_client.get_object of download_from_s3: NoSuchKey is a ClientError
get_object_outcome(path, o) == IF path \in DOMAIN bucket THEN o ELSE "ClientError"

\* what happens to the Uploads item of an invocation's work item
StatusOf(tbl, key) == IF key \in Keys THEN tbl[key].status ELSE ""
MessageOf(tbl, key) == IF key \in Keys THEN tbl[key].error_message ELSE ""

KeyOf(i) == <<inv[i].event.store_id, inv[i].event.upload_id>>

Idle ==
  [pc |-> "idle", event |-> NullEvent, bound |-> FALSE, file_data |-> Empty,
   llm_client |-> "none", capability |-> "", attempt |-> 0, e |-> "",
   failed_at |-> "", found |-> <<>>, parsed |-> <<>>, text |-> "",
   extracted_data |-> NoData, statusCode |-> 0, body |-> "",
   log |-> <<>>, slept |-> <<>>, final_status |-> "", final_message |-> ""]

Envs == [GEMINI_API_KEY : BOOLEAN, OPENAI_API_KEY : BOOLEAN,
         LLM_PROVIDER : {"gemini", "openai"}]

\* the configurations of the concurrent runs: a provider, or none
CoreEnvs == {e \in Envs : ~e.OPENAI_API_KEY /\ e.LLM_PROVIDER = "gemini"}

ObjectsWith(sales, stock, doc) ==
  (P_sales :> sales) @@ (P_stock :> stock) @@ (P_empty :> Empty)
  @@ (P_inv :> Bytes) @@ (P_po :> Bytes) @@ (P_rec :> Bytes)
  @@ (P_bank :> doc) @@ (P_docx :> doc) @@ (P_note :> doc)

Objects(sales) == ObjectsWith(sales, StockTable, Bytes)

\* ------------------------------------------------ upload_handler/handler.py
\* file_content of a request body: whether it is given, whether base64 can
\* decode it, whether it is larger than MAX_FILE_SIZE_MB, and what it holds
Content(data) == [given |-> TRUE, b64 |-> TRUE, large |-> FALSE, data |-> data]
NoContent == [given |-> FALSE, b64 |-> FALSE, large |-> FALSE, data |-> Empty]

Body(s, t, n, c) ==
  [store_id |-> s, file_type |-> t, file_name |-> n, file_content |-> c]

FILE_TYPE_FOLDERS ==
  ("invoice_image" :> "raw/invoices_images/")
  @@ ("receipt_image" :> "raw/receipts_images/")
  @@ ("sales_csv" :> "raw/sales_csv/")
  @@ ("inventory_csv" :> "raw/sales_csv/")
  @@ ("bank_statement_pdf" :> "raw/documents/")
  @@ ("purchase_order_image" :> "raw/invoices_images/")

\* an empty response-to-be of the upload handler
IdleIntake ==
  [store_id |-> "", upload_id |-> "", responses |-> <<>>]

\* Every work item arrives with its Uploads item marked UPLOADED by the
\* upload handler.
InitTables ==
  /\ uploads = [k \in Keys |-> [status |-> "UPLOADED", error_message |-> ""]]
  /\ extracted = [k \in Keys |-> NoRecord]
  /\ inv = [i \in Invocations |-> Idle]
  /\ intake = IdleIntake

\* the calls one invocation can make: three status updates, the download,
\* the put and the attempts of the model call
AllCalls == max_retries + 5

\* JSON objects a model may answer with: empty, flat, nested, and two whose
\* string value holds fence and brace characters
o_empty == <<"{", "}">>
o_flat == <<"{", quote, "k", quote, ":", " ", "1", "}">>
o_nested == <<"{", quote, "k", quote, ":", "{", "}", "}">>
o_fence_text ==
  <<"{", quote, "k", quote, ":", quote, fence, "{", "}", fence, quote, "}">>
o_brace_text == <<"{", quote, "k", quote, ":", quote, "}", fence, quote, "}">>
Objects_json == {o_empty, o_flat, o_nested, o_fence_text, o_brace_text}

\* no code fence, a bare one, and one with the json tag
Fences == {<<<<>>, <<>>>>, <<<<fence>>, <<fence>>>>,
           <<<<fence, tag, " ">>, <<" ", fence>>>>}

\* commentary without brace characters before and after
Preambles == {<<>>, <<"x", " ">>}
Postambles == {<<>>, <<" ", "x">>}

Wrap(pre, f, o, post) == pre \o f[1] \o o \o f[2] \o post

WrappedObjects ==
  {Wrap(pre, f, o, post) :
     pre \in Preambles, f \in Fences, o \in Objects_json, post \in Postambles}

\* answers that are no object: a number, a word, nothing, a string, lone or
\* reversed braces, braces around a word, a number before a closing brace
OtherTexts ==
  {<<"1">>, <<"x">>, <<>>, <<quote, "x", quote>>, <<"{">>, <<"}">>,
   <<"}", " ", "{">>, <<"{", "x", "}">>, <<"1", " ", "}">>}

Responses == WrappedObjects \cup OtherTexts

\* the answer of the concurrent runs
CoreReply == Wrap(<<>>, <<<<fence, tag, " ">>, <<" ", fence>>>>, o_flat, <<>>)

\* the work items that go to the model backend
ModelItems == {ev \in WellFormed : ev.file_type \in image_types \cup document_types}

\* concurrent runs: a few work items, each of which may be delivered again
\* while or after it is processed
Init ==
  /\ env \in CoreEnvs
  /\ reply = CoreReply
  /\ bucket \in {Objects(t) : t \in CoreTables}
  /\ queue = CoreItems
  /\ deliveries = MaxInvocations
  /\ faults = MaxFaults
  /\ InitTables

\* one invocation and any number of failing calls, in one of four
\* settings: any configuration and any event; any sales table and its work
\* item; any inventory table and its work item; any answer of the model and
\* a work item that goes to the model
InitSingle ==
  /\ \/ /\ env \in Envs
        /\ bucket \in {ObjectsWith(t, StockTable, doc) :
                          t \in CoreTables, doc \in {Bytes, Corrupt}}
        /\ reply = CoreReply
        /\ queue = WellFormed \cup Malformed
     \/ /\ env \in CoreEnvs
        /\ bucket \in {Objects(t) : t \in SalesTables(MaxRows)}
        /\ reply = CoreReply
        /\ queue = {Event("U_sales", "S1", P_sales, "sales_csv")}
     \/ /\ env \in CoreEnvs
        /\ bucket \in {ObjectsWith(s, t, Bytes) : s \in CoreTables, t \in InventoryTables(MaxRows)}
        /\ reply = CoreReply
        /\ queue = {Event("U_stock", "S1", P_stock, "inventory_csv")}
     \/ /\ env \in {e \in Envs : e.GEMINI_API_KEY # e.OPENAI_API_KEY
                                 /\ e.LLM_PROVIDER = "gemini"}
        /\ bucket \in {Objects(t) : t \in CoreTables}
        /\ reply \in Responses
        /\ queue = ModelItems
  /\ deliveries = 1
  /\ faults = AllCalls
  /\ InitTables

\* a call that fails uses up one of the failures the environment has left
Inject(o) ==
  /\ o \notin {"ok", "answer"} => faults > 0
  /\ faults' = IF o \in {"ok", "answer"} THEN faults ELSE faults - 1

\* ---------------------------------------------------------- lambda_handler
\* one call noted in an invocation's log: the operation, its argument, how
\* it ended, and the error_message handed to a status update or, for a call
\* of the model backend, what the backend did
Entry(op, arg, res, msg) == [op |-> op, arg |-> arg, res |-> res, msg |-> msg]

\* raise inside the try block: control goes to `except Exception as e`; the
\* step that raised is noted
Except(me, msg) == [me EXCEPT !.pc = "except", !.e = msg, !.failed_at = me.pc]

\* the handler returns; the status of the work item at that moment is noted
Returns(me, code, body, tbl) ==
  [me EXCEPT !.pc = "done", !.statusCode = code, !.body = body,
             !.final_status = StatusOf(tbl, <<me.event.store_id, me.event.upload_id>>),
             !.final_message = MessageOf(tbl, <<me.event.store_id, me.event.upload_id>>)]

\* an exception leaves the handler
Escapes(me, msg, tbl) ==
  [me EXCEPT !.pc = "raised", !.body = msg,
             !.final_status = StatusOf(tbl, <<me.event.store_id, me.event.upload_id>>),
             !.final_message = MessageOf(tbl, <<me.event.store_id, me.event.upload_id>>)]

\* lines 49-59: the event is read and checked
lambda_handler(i, ev) ==
  /\ deliveries > 0
  /\ inv[i].pc = "idle"
  /\ \A j \in Invocations : j < i => inv[j].pc # "idle"
  /\ ev \in queue
  /\ deliveries' = deliveries - 1
  /\ inv' = [inv EXCEPT ![i] =
       IF ~ev.is_dict
       THEN Except([@ EXCEPT !.event = ev],
                   "'NoneType' object has no attribute 'get'")
       ELSE IF "" \in {ev.upload_id, ev.store_id, ev.s3_path, ev.file_type}
       THEN Except([@ EXCEPT !.event = ev, !.bound = TRUE],
                   "Missing required event fields")
       ELSE [@ EXCEPT !.event = ev, !.bound = TRUE, !.pc = "processing"]]
  /\ UNCHANGED <<env, reply, intake, bucket, uploads, extracted, queue, faults>>

\* line 62: update_upload_status(store_id, upload_id, 'PROCESSING')
mark_processing(i, o) ==
  /\ inv[i].pc = "processing"
  /\ Inject(o)
  /\ uploads' = update_upload_status(uploads, KeyOf(i), "PROCESSING", "", o)
  /\ inv' = [inv EXCEPT ![i] =
       LET me == [@ EXCEPT !.log = Append(@, Entry("update_item", "PROCESSING",
                                                  update_item_outcome(KeyOf(i), o), ""))]
       IN IF update_upload_status_raises(KeyOf(i), o)
          THEN Except(me, ConnectionError)
          ELSE [me EXCEPT !.pc = "download"]]
  /\ UNCHANGED <<env, reply, intake, bucket, extracted, queue, deliveries>>

\* lines 64-69 and download_from_s3: a ClientError becomes None, and None or
\* an object of zero bytes raises the download failure
download_from_s3(i, o) ==
  /\ inv[i].pc = "download"
  /\ Inject(o)
  /\ inv' = [inv EXCEPT ![i] =
       LET path == @.event.s3_path
           res == get_object_outcome(path, o)
           me == [@ EXCEPT !.log = Append(@, Entry("get_object", path, res, ""))]
       IN IF res = "Error" THEN Except(me, ConnectionError)
          ELSE IF res = "ClientError" \/ bucket[path].kind = "empty"
          THEN Except(me, "Failed to download file from S3")
          ELSE [me EXCEPT !.pc = "dispatch", !.file_data = bucket[path]]]
  /\ UNCHANGED <<env, reply, intake, bucket, uploads, extracted, queue, deliveries>>

\* lines 71-75: get_llm_client, then extract_data up to the model call; the
\* CSV extractor runs to its end here
dispatch(i) ==
  /\ inv[i].pc = "dispatch"
  /\ UNCHANGED faults
  /\ inv' = [inv EXCEPT ![i] =
       LET client == get_llm_client(env)
           r == extract_data(@.event.file_type, client)
           me == [@ EXCEPT !.llm_client = client]
           csv == CSVExtractor_extract(@.file_data, @.event.file_type)
       IN IF r.route = "raise" THEN Except(me, r.error)
          ELSE IF r.route = "csv"
          THEN IF csv.ok
               THEN [me EXCEPT !.pc = "store", !.extracted_data = csv.data]
               ELSE [Except(me, csv.error) EXCEPT !.found = csv.found]
          ELSE [me EXCEPT !.pc = "model", !.capability = r.route,
                          !.text = IF r.route = DocumentExtractor_extract
                                   THEN document_text(inv[i].file_data, inv[i].event.s3_path)
                                   ELSE ""]]
  /\ UNCHANGED <<env, reply, intake, bucket, uploads, extracted, queue, deliveries>>

\* the exception of an attempt is re-raised after max_retries + 1 attempts
last_attempt_late(attempt) == attempt = max_retries

\* retry_with_backoff, line 126: the exception of the last attempt is re-raised
last_attempt(attempt) == attempt = max_retries - 1

\* every exhausted retry is reported under one message
reraise_wrapped(e) == "Max retries exceeded"

\* retry_with_backoff, line 127: the bare raise hands the exception on as it is
reraise(e) == e

\* a backoff that starts at two time units
wait_time_doubled(attempt) == 2 ^ (attempt + 1)

\* retry_with_backoff, line 129: wait_time = 2 ** attempt
wait_time(attempt) == 2 ^ attempt

\* a loop that gives up on the first response the sanitizer rejects
after_attempt_rejected(me, r) ==
  IF r.ok
  THEN [me EXCEPT !.pc = "store", !.extracted_data = LlmData(r.res),
                  !.parsed = r.value]
  ELSE IF last_attempt(me.attempt) \/ r.res = "Invalid JSON response from LLM"
  THEN Except(me, reraise(r.res))
  ELSE [me EXCEPT !.attempt = @ + 1,
                  !.slept = Append(@, wait_time(me.attempt))]

\* a loop that hands a result straight to the status update, past the put
after_attempt_unstored(me, r) ==
  IF r.ok
  THEN [me EXCEPT !.pc = "mark_extracted", !.extracted_data = LlmData(r.res),
                  !.parsed = r.value]
  ELSE IF last_attempt(me.attempt)
  THEN Except(me, reraise(r.res))
  ELSE [me EXCEPT !.attempt = @ + 1,
                  !.slept = Append(@, wait_time(me.attempt))]

\* retry_with_backoff, lines 120-131: the invocation after one call of func
\* that ended as r: the result is returned, or the exception is re-raised on
\* the last attempt, or the loop sleeps and goes on
after_attempt(me, r) ==
  IF r.ok
  THEN [me EXCEPT !.pc = "store", !.extracted_data = LlmData(r.res),
                  !.parsed = r.value]
  ELSE IF last_attempt(me.attempt)
  THEN Except(me, reraise(r.res))
  ELSE [me EXCEPT !.attempt = @ + 1,
                  !.slept = Append(@, wait_time(me.attempt))]

\* the call of the backend is logged with the way it ended
logged_attempt(me, r) ==
  after_attempt([me EXCEPT !.log = Append(@, Entry("model", me.capability, r.res, r.how))], r)

\* BaseLLMClient.retry_with_backoff around _extract: one pass of the loop
retry_with_backoff(i, o) ==
  /\ inv[i].pc = "model"
  /\ Inject(o)
  /\ inv' = [inv EXCEPT ![i] = logged_attempt(@, extract_once(o, reply))]
  /\ UNCHANGED <<env, reply, intake, bucket, uploads, extracted, queue, deliveries>>

\* lines 77-91 and store_extracted_data: a ClientError becomes False and
\* False raises the store failure
store_extracted_data(i, o) ==
  /\ inv[i].pc = "store"
  /\ Inject(o)
  /\ LET me == inv[i]
         record == [present |-> TRUE,
                    store_id |-> me.event.store_id,
                    record_id |-> me.event.upload_id,
                    type |-> get_data_type(me.event.file_type),
                    data |-> me.extracted_data,
                    extraction_method |-> get_extraction_method(me.event.file_type)]
         res == IF HasNaN(me.extracted_data) THEN "Error" ELSE o
         logged == [me EXCEPT !.log = Append(@, Entry("put_item", me.event.upload_id, res, ""))]
     IN /\ extracted' = IF res = "ok"
                         THEN [extracted EXCEPT ![KeyOf(i)] = record]
                         ELSE extracted
        /\ inv' = [inv EXCEPT ![i] =
             IF res = "ok" THEN [logged EXCEPT !.pc = "mark_extracted"]
             ELSE IF res = "ClientError"
             THEN Except(logged, "Failed to store extracted data")
             ELSE IF HasNaN(me.extracted_data)
             THEN Except(logged, "Infinity and NaN not supported")
             ELSE Except(logged, ConnectionError)]
  /\ UNCHANGED <<env, reply, intake, bucket, uploads, queue, deliveries>>

\* lines 93-105: update_upload_status(..., 'EXTRACTED') and the success
\* response, whose len(extracted_data) raises on data without a length
mark_extracted(i, o) ==
  /\ inv[i].pc = "mark_extracted"
  /\ Inject(o)
  /\ uploads' = update_upload_status(uploads, KeyOf(i), "EXTRACTED", "", o)
  /\ inv' = [inv EXCEPT ![i] =
       LET me == [@ EXCEPT !.log = Append(@, Entry("update_item", "EXTRACTED",
                                                  update_item_outcome(KeyOf(i), o), ""))]
       IN IF update_upload_status_raises(KeyOf(i), o)
          THEN Except(me, ConnectionError)
          ELSE IF ~me.extracted_data.sized
          THEN Except(me, "object of type 'int' has no len()")
          ELSE Returns(me, 200, "Extraction successful", uploads')]
  /\ UNCHANGED <<env, reply, intake, bucket, extracted, queue, deliveries>>

\* the handler puts a failed item back to PROCESSING
failure_status_reset == "PROCESSING"

\* line 115: the status the exception handler writes
failure_status == "FAILED"

\* lines 107-124: the FAILED update when upload_id and store_id are bound,
\* then the failure response
handle_exception(i, o) ==
  /\ inv[i].pc = "except"
  /\ Inject(o)
  /\ inv[i].bound \/ o = "ok"
  /\ uploads' = IF inv[i].bound
                THEN update_upload_status(uploads, KeyOf(i), failure_status, inv[i].e, o)
                ELSE uploads
  /\ inv' = [inv EXCEPT ![i] =
       IF ~@.bound THEN Returns(@, 500, @.e, uploads')
       ELSE LET me == [@ EXCEPT !.log = Append(@, Entry("update_item", failure_status,
                                                  update_item_outcome(KeyOf(i), o), inv[i].e))]
            IN IF update_upload_status_raises(KeyOf(i), o)
               THEN Escapes(me, ConnectionError, uploads')
               ELSE Returns(me, 500, me.e, uploads')]
  /\ UNCHANGED <<env, reply, intake, bucket, extracted, queue, deliveries>>

Next ==
  \E i \in Invocations :
    \/ \E ev \in WellFormed \cup Malformed : lambda_handler(i, ev)
    \/ \E o \in Outcomes : mark_processing(i, o)
    \/ \E o \in Outcomes : download_from_s3(i, o)
    \/ dispatch(i)
    \/ \E o \in ModelOutcomes : retry_with_backoff(i, o)
    \/ \E o \in Outcomes : store_extracted_data(i, o)
    \/ \E o \in Outcomes : mark_extracted(i, o)
    \/ \E o \in Outcomes : handle_exception(i, o)

Spec == Init /\ [][Next]_vars
SpecSingle == InitSingle /\ [][Next]_vars

\* --------------------------------------------- upload_handler.lambda_handler
\* the request bodies: a sales file, an invoice image, and requests that are
\* turned down (a field missing, a file type that is not allowed, a store
\* that does not exist, content that is not base64, content that is too large)
UploadBodies ==
  {Body("S1", "sales_csv", "sales.csv", Content(CHOOSE t \in CoreTables : TRUE)),
   Body("S1", "invoice_image", "inv.jpg", Content(Bytes)),
   Body("", "sales_csv", "sales.csv", Content(Bytes)),
   Body("S1", "sales_csv", "sales.csv", NoContent),
   Body("S1", "video_mp4", "inv.jpg", Content(Bytes)),
   Body("S9", "sales_csv", "sales.csv", Content(Bytes)),
   Body("S1", "invoice_image", "inv.jpg", [Content(Bytes) EXCEPT !.b64 = FALSE]),
   Body("S1", "invoice_image", "inv.jpg", [Content(Bytes) EXCEPT !.large = TRUE])}

\* validate_store: get_item on the Stores table; a ClientError counts as no
\* store
validate_store(store_id, o) == o = "ok" /\ store_id \in Stores

\* an upload id that has been handed out before
generate_upload_id_reused(n) == "U_sales"

\* generate_upload_id: prefix, store, timestamp and the first 8 characters of
\* a uuid4; the n-th call is taken to give an id no earlier call gave
generate_upload_id(n) == <<"U_sales", "U_inv", "U_stock", "U_rec">>[n]

\* generate_s3_key: folder, store and file name (the timestamp, which has a
\* resolution of one second, is left out)
generate_s3_key(store_id, file_type, file_name) ==
  FILE_TYPE_FOLDERS[file_type] \o store_id \o "_" \o file_name

\* error_response, and the success response of lines 132-141
Response(code, message, upload_id) ==
  [statusCode |-> code, message |-> message, upload_id |-> upload_id,
   recorded |-> FALSE]

\* the calls of the upload handler, in order, and the ways a run can go: all
\* calls succeed, or the call `at` ends as `how` and no later call is made
UploadCalls == <<"get_item", "put_object", "put_item", "invoke">>
UploadRuns ==
  {[at |-> 0, how |-> "ok"]}
  \cup [at : 1..Len(UploadCalls), how : Outcomes \ {"ok"}]

\* how the call number c ends in the run f; "none" when it is not reached
CallOutcome(f, c) ==
  IF f.at = 0 \/ c < f.at THEN "ok" ELSE IF c = f.at THEN f.how ELSE "none"

\* a handler that does not test what create_upload_record returns
upload_run_untested(b, n, f) ==
  LET upload_id == generate_upload_id(n)
      get_item == CallOutcome(f, 1)
      put_object == CallOutcome(f, 2)
      put_item == CallOutcome(f, 3)
      invoke == CallOutcome(f, 4)
      Ends(code, message, id, stored, recorded, triggered) ==
        [response |-> Response(code, message, id), upload_id |-> upload_id,
         stored |-> stored, recorded |-> recorded, triggered |-> triggered]
  IN IF "" \in {b.store_id, b.file_type, b.file_name} \/ ~b.file_content.given
     THEN Ends(400, "Missing required fields", "", FALSE, FALSE, FALSE)
     ELSE IF b.file_type \notin DOMAIN FILE_TYPE_FOLDERS
     THEN Ends(400, "Invalid file_type", "", FALSE, FALSE, FALSE)
     ELSE IF get_item = "Error"
     THEN Ends(500, "Internal server error", "", FALSE, FALSE, FALSE)
     ELSE IF ~validate_store(b.store_id, get_item)
     THEN Ends(404, "Store not found", "", FALSE, FALSE, FALSE)
     ELSE IF ~b.file_content.b64
     THEN Ends(400, "Invalid base64 file content", "", FALSE, FALSE, FALSE)
     ELSE IF b.file_content.large
     THEN Ends(400, "File too large", "", FALSE, FALSE, FALSE)
     ELSE IF put_object = "ClientError"
     THEN Ends(500, "Failed to upload file to S3", "", FALSE, FALSE, FALSE)
     ELSE IF put_object = "Error"
     THEN Ends(500, "Internal server error", "", FALSE, FALSE, FALSE)
     ELSE IF put_item = "ClientError"
     THEN Ends(200, "Upload successful", upload_id, TRUE, FALSE, TRUE)
     ELSE IF put_item = "Error"
     THEN Ends(500, "Internal server error", "", TRUE, FALSE, FALSE)
     ELSE IF invoke = "Error"
     THEN Ends(500, "Internal server error", "", TRUE, TRUE, FALSE)
     ELSE Ends(200, "Upload successful", upload_id, TRUE, TRUE, invoke = "ok")

\* a handler that looks at the size of the file once the file is in S3
upload_run_stored_first(b, n, f) ==
  LET upload_id == generate_upload_id(n)
      get_item == CallOutcome(f, 1)
      put_object == CallOutcome(f, 2)
      put_item == CallOutcome(f, 3)
      invoke == CallOutcome(f, 4)
      Ends(code, message, id, stored, recorded, triggered) ==
        [response |-> Response(code, message, id), upload_id |-> upload_id,
         stored |-> stored, recorded |-> recorded, triggered |-> triggered]
  IN IF "" \in {b.store_id, b.file_type, b.file_name} \/ ~b.file_content.given
     THEN Ends(400, "Missing required fields", "", FALSE, FALSE, FALSE)
     ELSE IF b.file_type \notin DOMAIN FILE_TYPE_FOLDERS
     THEN Ends(400, "Invalid file_type", "", FALSE, FALSE, FALSE)
     ELSE IF get_item = "Error"
     THEN Ends(500, "Internal server error", "", FALSE, FALSE, FALSE)
     ELSE IF ~validate_store(b.store_id, get_item)
     THEN Ends(404, "Store not found", "", FALSE, FALSE, FALSE)
     ELSE IF ~b.file_content.b64
     THEN Ends(400, "Invalid base64 file content", "", FALSE, FALSE, FALSE)
     ELSE IF b.file_content.large
     THEN Ends(400, "File too large", "", TRUE, FALSE, FALSE)
     ELSE IF put_object = "ClientError"
     THEN Ends(500, "Failed to upload file to S3", "", FALSE, FALSE, FALSE)
     ELSE IF put_object = "Error"
     THEN Ends(500, "Internal server error", "", FALSE, FALSE, FALSE)
     ELSE IF put_item = "ClientError"
     THEN Ends(500, "Failed to create upload record", "", TRUE, FALSE, FALSE)
     ELSE IF put_item = "Error"
     THEN Ends(500, "Internal server error", "", TRUE, FALSE, FALSE)
     ELSE IF invoke = "Error"
     THEN Ends(500, "Internal server error", "", TRUE, TRUE, FALSE)
     ELSE Ends(200, "Upload successful", upload_id, TRUE, TRUE, invoke = "ok")

\* upload_handler.lambda_handler, lines 60-145, for the body b, the n-th
\* request, when its calls end as f says: the response, and whether the
\* object, the upload record and the work item were written
upload_run(b, n, f) ==
  LET upload_id == generate_upload_id(n)
      get_item == CallOutcome(f, 1)
      put_object == CallOutcome(f, 2)
      put_item == CallOutcome(f, 3)
      invoke == CallOutcome(f, 4)
      Ends(code, message, id, stored, recorded, triggered) ==
        [response |-> Response(code, message, id), upload_id |-> upload_id,
         stored |-> stored, recorded |-> recorded, triggered |-> triggered]
  IN IF "" \in {b.store_id, b.file_type, b.file_name} \/ ~b.file_content.given
     THEN Ends(400, "Missing required fields", "", FALSE, FALSE, FALSE)
     ELSE IF b.file_type \notin DOMAIN FILE_TYPE_FOLDERS
     THEN Ends(400, "Invalid file_type", "", FALSE, FALSE, FALSE)
     ELSE IF get_item = "Error"
     THEN Ends(500, "Internal server error", "", FALSE, FALSE, FALSE)
     ELSE IF ~validate_store(b.store_id, get_item)
     THEN Ends(404, "Store not found", "", FALSE, FALSE, FALSE)
     ELSE IF ~b.file_content.b64
     THEN Ends(400, "Invalid base64 file content", "", FALSE, FALSE, FALSE)
     ELSE IF b.file_content.large
     THEN Ends(400, "File too large", "", FALSE, FALSE, FALSE)
     ELSE IF put_object = "ClientError"
     THEN Ends(500, "Failed to upload file to S3", "", FALSE, FALSE, FALSE)
     ELSE IF put_object = "Error"
     THEN Ends(500, "Internal server error", "", FALSE, FALSE, FALSE)
     ELSE IF put_item = "ClientError"
     THEN Ends(500, "Failed to create upload record", "", TRUE, FALSE, FALSE)
     ELSE IF put_item = "Error"
     THEN Ends(500, "Internal server error", "", TRUE, FALSE, FALSE)
     ELSE IF invoke = "Error"
     THEN Ends(500, "Internal server error", "", TRUE, TRUE, FALSE)
     ELSE Ends(200, "Upload successful", upload_id, TRUE, TRUE, invoke = "ok")

\* the calls the run f of the body b gets to make
CallsMade(b, f) ==
  IF "" \in {b.store_id, b.file_type, b.file_name} \/ ~b.file_content.given
     \/ b.file_type \notin DOMAIN FILE_TYPE_FOLDERS
  THEN 0
  ELSE IF ~validate_store(b.store_id, CallOutcome(f, 1))
          \/ ~b.file_content.b64 \/ b.file_content.large
  THEN 1
  ELSE Len(UploadCalls)

\* one request to the upload handler, from the body to the response
upload_handler(b, f) ==
  /\ Len(intake.responses) < MaxUploads
  /\ f.at <= CallsMade(b, f)
  /\ f.at # 0 => faults > 0
  /\ faults' = IF f.at # 0 THEN faults - 1 ELSE faults
  /\ LET n == Len(intake.responses) + 1
         r == upload_run(b, n, f)
         s3_key == generate_s3_key(b.store_id, b.file_type, b.file_name)
         key == <<b.store_id, r.upload_id>>
     IN /\ bucket' = IF r.stored THEN (s3_key :> b.file_content.data) @@ bucket
                     ELSE bucket
        /\ uploads' = IF r.recorded
                      THEN [uploads EXCEPT ![key] =
                              [status |-> "UPLOADED", error_message |-> ""]]
                      ELSE uploads
        /\ queue' = IF r.triggered
                    THEN queue \cup {Event(r.upload_id, b.store_id, s3_key, b.file_type)}
                    ELSE queue
        /\ intake' = [intake EXCEPT
             !.responses = Append(@, [r.response EXCEPT !.recorded = r.recorded]),
             !.store_id = b.store_id, !.upload_id = r.upload_id]
  /\ UNCHANGED <<env, reply, extracted, inv, deliveries>>

\* the upload handler and the extraction worker together: no upload record
\* and no object to begin with, work items only as the upload handler
\* triggers them, two deliveries by the Lambda service and one failing call
InitUpload ==
  /\ env \in {e \in CoreEnvs : e.GEMINI_API_KEY}
  /\ reply = CoreReply
  /\ bucket = [p \in {} |-> Empty]
  /\ uploads = [k \in Keys |-> [status |-> "", error_message |-> ""]]
  /\ extracted = [k \in Keys |-> NoRecord]
  /\ inv = [i \in Invocations |-> Idle]
  /\ intake = IdleIntake
  /\ queue = {}
  /\ deliveries = 2
  /\ faults = 1

NextUpload ==
  \/ \E b \in UploadBodies : \E f \in UploadRuns : upload_handler(b, f)
  \/ Next

SpecUpload == InitUpload /\ [][NextUpload]_vars

\* ------------------------------------------------------------- properties
Done(i) == inv[i].pc \in {"done", "raised"}

AllFields(ev) ==
  ev.is_dict /\ "" \notin {ev.upload_id, ev.store_id, ev.s3_path, ev.file_type}

\* positions in the log of invocation i of the calls of one operation
Calls(i, op) == {k \in 1..Len(inv[i].log) : inv[i].log[k].op = op}

\* the status updates invocation i issued with status st
Issued(i, st) == {k \in Calls(i, "update_item") : inv[i].log[k].arg = st}

\* invocation i put its record into the ExtractedData table
Persisted(i) == \E k \in Calls(i, "put_item") : inv[i].log[k].res = "ok"

Terminal == {"EXTRACTED", "FAILED"}

\* C1: after a completed invocation on a work item with all four fields,
\* whatever calls failed, either a record is persisted and the status is
\* EXTRACTED, or no record is persisted and the status is FAILED.
C1_AllOrNothing ==
  \A i \in Invocations :
    Done(i) /\ AllFields(inv[i].event) =>
      \/ extracted[KeyOf(i)].present /\ inv[i].final_status = "EXTRACTED"
      \/ ~extracted[KeyOf(i)].present /\ inv[i].final_status = "FAILED"

\* C2: every change of an upload's status follows an edge of
\* UPLOADED -> PROCESSING -> (EXTRACTED | FAILED).
LifecycleEdges ==
  {<<"UPLOADED", "PROCESSING">>, <<"PROCESSING", "EXTRACTED">>,
   <<"PROCESSING", "FAILED">>}

C2_Lifecycle ==
  [][\A k \in Keys :
       uploads'[k].status # uploads[k].status =>
         <<uploads[k].status, uploads'[k].status>> \in LifecycleEdges]_vars

\* C3: once an upload's status is EXTRACTED or FAILED, no step sets it back
\* to PROCESSING, a second delivery of the same work item included.
C3_TerminalStays ==
  [][\A k \in Keys :
       uploads[k].status \in Terminal => uploads'[k].status # "PROCESSING"]_vars

\* C3 as amended: a terminal status is overwritten by PROCESSING only by the
\* first side effect of an invocation that was delivered for that upload.
C3_ResetOnlyByNewDelivery ==
  [][\A k \in Keys :
       uploads[k].status \in Terminal /\ uploads'[k].status = "PROCESSING" =>
         \E i \in Invocations :
           /\ KeyOf(i) = k
           /\ inv[i].pc = "processing"
           /\ inv[i].log = <<>>
           /\ inv'[i].log # <<>>]_vars

\* an upload that had reached a terminal status is PROCESSING again because
\* its work item was delivered a second time
C3_Redelivered ==
  \E i, j \in Invocations :
    /\ i # j
    /\ KeyOf(i) = KeyOf(j)
    /\ KeyOf(i) \in Keys
    /\ inv[j].pc = "done"
    /\ inv[j].final_status \in Terminal
    /\ inv[i].pc = "download"
    /\ uploads[KeyOf(i)].status = "PROCESSING"

\* C4: when the download fails, the dispatcher raises or the put fails, the
\* handler issues a FAILED update carrying the captured message, issues no
\* EXTRACTED update and returns the failure response.
C4_FailureIsReported ==
  \A i \in Invocations :
    /\ Done(i)
    /\ AllFields(inv[i].event)
    /\ inv[i].failed_at \in {"download", "dispatch", "model", "store"}
    => /\ \E k \in Issued(i, "FAILED") : inv[i].log[k].msg = inv[i].e
       /\ Issued(i, "EXTRACTED") = {}
       /\ inv[i].pc = "done"
       /\ inv[i].statusCode = 500

\* C5: no exception escapes lambda_handler.
C5_NeverRaises == \A i \in Invocations : inv[i].pc # "raised"

\* C6: the success response is returned only if the record was persisted and
\* the EXTRACTED status was written, the failure response only if no record
\* was persisted.
C6_ResponseAgrees ==
  \A i \in Invocations :
    inv[i].pc = "done" =>
      /\ inv[i].statusCode = 200 =>
            Persisted(i) /\ inv[i].final_status = "EXTRACTED"
      /\ inv[i].statusCode = 500 => ~Persisted(i)

\* C7: an event with a missing or empty field causes no side effect at all:
\* no S3 read, no status update, no put.
C7_MalformedNoSideEffect ==
  \A i \in Invocations :
    inv[i].pc # "idle" /\ ~AllFields(inv[i].event) => inv[i].log = <<>>

\* the calls of the model backend that invocation i made, in order
ModelCalls(i) == Calls(i, "model")

LastEntry(i) == inv[i].log[Len(inv[i].log)]

\* invocation i ran on an image or document item with a provider available,
\* reached the model backend, and every call of it failed
AllModelCallsFailed(i) ==
  /\ Done(i)
  /\ inv[i].event.file_type \in image_types \cup document_types
  /\ get_llm_client(env) # "none"
  /\ ModelCalls(i) # {}
  /\ \A k \in ModelCalls(i) : inv[i].log[k].res \notin {"object", "scalar"}

\* the message of the last failed model call of invocation i
LastModelFailure(i) ==
  inv[i].log[CHOOSE k \in ModelCalls(i) : \A m \in ModelCalls(i) : m <= k].res

SalesFile == bucket[P_sales]

HeadersResolve(t) ==
  Cardinality(DOMAIN column_mapping(normalize_columns(t.headers))) = Len(required)

CellUnder(t, r, names) ==
  t.rows[r][CHOOSE j \in 1..Len(t.headers) : t.headers[j] \in names]

NumericRows(t) ==
  {r \in 1..Len(t.rows) :
     /\ CellUnder(t, r, {h_Quantity}).k = "num"
     /\ CellUnder(t, r, {h_Price}).k = "num"}

NonNumericPriceRows(t) ==
  {r \in 1..Len(t.rows) : CellUnder(t, r, {h_Price}).k = "text"}

IsStatusUpdate(entry) == entry.op = "update_item"

\* the statuses invocation i wrote, in order
StatusWrites(i) ==
  LET ups == SelectSeq(inv[i].log, IsStatusUpdate)
  IN [k \in 1..Len(ups) |-> ups[k].arg]

\* invocation i ran on a sales file whose headers resolve and whose rows
\* either have a numeric quantity and price or a non-numeric price, and
\* every call it made to S3 and DynamoDB succeeded
SalesRunReliable(i) ==
  /\ Done(i)
  /\ AllFields(inv[i].event)
  /\ inv[i].event.file_type = "sales_csv"
  /\ inv[i].event.s3_path = P_sales
  /\ HeadersResolve(SalesFile)
  /\ NumericRows(SalesFile) \cup NonNumericPriceRows(SalesFile)
       = 1..Len(SalesFile.rows)
  /\ \A k \in 1..Len(inv[i].log) : inv[i].log[k].res = "ok"

\* C9: such a run persists exactly one record with total_records = n and the
\* table-parse method, writes PROCESSING then EXTRACTED and never FAILED,
\* and makes no model call.
C9_SalesEndToEnd ==
  \A i \in Invocations :
    SalesRunReliable(i) =>
      /\ Cardinality(Calls(i, "put_item")) = 1
      /\ extracted[KeyOf(i)].present
      /\ extracted[KeyOf(i)].data.total_records
           = Cardinality(NumericRows(SalesFile))
      /\ extracted[KeyOf(i)].extraction_method = "csv_parse"
      /\ StatusWrites(i) = <<"PROCESSING", "EXTRACTED">>
      /\ ModelCalls(i) = {}

\* a finished run on a table with a valid row and a row whose price is text
C9_MixedRows ==
  \E i \in Invocations :
    /\ SalesRunReliable(i)
    /\ NumericRows(SalesFile) # {}
    /\ NonNumericPriceRows(SalesFile) # {}
    /\ extracted[KeyOf(i)].data.total_records = 1

NoProviderErrors ==
  {"LLM client required for image extraction",
   "LLM client required for document extraction"}

\* invocation i ran on an image or document item with no provider key set
NoProviderRun(i) ==
  /\ Done(i)
  /\ AllFields(inv[i].event)
  /\ inv[i].event.file_type \in image_types \cup document_types
  /\ ~env.GEMINI_API_KEY
  /\ ~env.OPENAI_API_KEY

\* the run got as far as extract_data
ReachedDispatch(i) == inv[i].failed_at \notin {"processing", "download"}

GotClient(i) ==
  /\ inv[i].pc \notin {"idle", "processing", "download", "dispatch"}
  /\ inv[i].failed_at \notin {"idle", "processing", "download"}

\* C11: the Gemini client is used whenever the Gemini key is present,
\* whatever LLM_PROVIDER says; the OpenAI client exactly when only the OpenAI
\* key is present; no client exactly when neither key is present.
C11_ProviderOrder ==
  \A i \in Invocations :
    GotClient(i) =>
      /\ inv[i].llm_client = "gemini" <=> env.GEMINI_API_KEY
      /\ inv[i].llm_client = "openai" <=>
            ~env.GEMINI_API_KEY /\ env.OPENAI_API_KEY
      /\ inv[i].llm_client = "none" <=>
            ~env.GEMINI_API_KEY /\ ~env.OPENAI_API_KEY

\* both keys are set, LLM_PROVIDER names OpenAI, and the Gemini client is used
C11_GeminiPreferred ==
  \E i \in Invocations :
    /\ GotClient(i)
    /\ env.GEMINI_API_KEY
    /\ env.OPENAI_API_KEY
    /\ env.LLM_PROVIDER = "openai"
    /\ inv[i].llm_client = "gemini"
    /\ ModelCalls(i) # {}

\* the messages with which the CSV extractor fails
CsvErrors == {"Missing required columns", "Error tokenizing data"}

\* C12: the three image types go to the image extractor and the bank
\* statement to the document extractor, each with the model client (and
\* fail before any extractor when there is none); the two CSV types go to
\* the CSV extractor; every other file type raises the unsupported-type
\* error with no extractor and no model call.
C12_Routing ==
  \A i \in Invocations :
    GotClient(i) /\ AllFields(inv[i].event) =>
      LET t == inv[i].event.file_type
          me == inv[i]
      IN /\ t \in image_types =>
              IF me.llm_client = "none"
              THEN me.failed_at = "dispatch" /\ me.capability = ""
              ELSE me.capability = "extract_from_image" /\ me.failed_at # "dispatch"
         /\ t \in document_types =>
              IF me.llm_client = "none"
              THEN me.failed_at = "dispatch" /\ me.capability = ""
              ELSE me.capability = "extract_from_text" /\ me.failed_at # "dispatch"
         /\ t \in csv_types =>
              /\ me.capability = ""
              /\ ModelCalls(i) = {}
              /\ IF me.failed_at = "dispatch" THEN me.e \in CsvErrors
                 ELSE me.extracted_data.kind = get_data_type(t)
         /\ t \notin image_types \cup document_types \cup csv_types =>
              /\ me.failed_at = "dispatch"
              /\ me.e = "Unsupported file type"
              /\ me.capability = ""
              /\ ModelCalls(i) = {}
              /\ me.extracted_data = NoData

\* a video was downloaded, refused by the dispatcher and marked FAILED
C12_Unsupported ==
  \E i \in Invocations :
    /\ inv[i].pc = "done"
    /\ inv[i].event.file_type = "video_mp4"
    /\ inv[i].failed_at = "dispatch"
    /\ inv[i].e = "Unsupported file type"
    /\ Calls(i, "get_object") # {}
    /\ inv[i].final_status = "FAILED"

Succeeded == {"object", "scalar"}

\* C13: the wrapped operation is called at most 3 times; a successful attempt
\* is the last one and its result is what is returned; and when all 3
\* attempts fail, the exception handed to the caller is that of the 3rd.
C13_AtMostThreeAttempts ==
  \A i \in Invocations :
    LET calls == ModelCalls(i)
    IN /\ Cardinality(calls) <= 3
       /\ \A k \in calls :
            inv[i].log[k].res \in Succeeded =>
              /\ k = Max(calls)
              /\ inv[i].pc # "model"
              /\ inv[i].extracted_data = LlmData(inv[i].log[k].res)
              /\ inv[i].parsed = validate_json_response(reply).value
       /\ \A k \in calls : k # Max(calls) => inv[i].log[k].res \notin Succeeded
       /\ inv[i].failed_at = "model" =>
            /\ Cardinality(calls) = 3
            /\ \A k \in calls : inv[i].log[k].res \notin Succeeded
            /\ inv[i].e = inv[i].log[Max(calls)].res

\* three attempts failed, the first otherwise than the third, and the third
\* exception reached the handler
C13_ThirdFailure ==
  \E i \in Invocations :
    /\ inv[i].pc = "except"
    /\ inv[i].failed_at = "model"
    /\ Cardinality(ModelCalls(i)) = 3
    /\ inv[i].log[Min(ModelCalls(i))].res = "timed out"
    /\ inv[i].e = "Invalid JSON response from LLM"

RECURSIVE SeqSum(_)
SeqSum(q) == IF q = <<>> THEN 0 ELSE Head(q) + SeqSum(Tail(q))

\* C14: the wait after failed attempt number k (from 0) is 2^k, a wait
\* happens only between a failed attempt and the next one, never after a
\* success and never after the last failure, so a fully failed run waits
\* 1 then 2, 3 time units in all.
C14_Backoff ==
  \A i \in Invocations :
    LET n == Cardinality(ModelCalls(i))
        waits == inv[i].slept
    IN /\ \A k \in 1..Len(waits) : waits[k] = 2 ^ (k - 1)
       /\ inv[i].pc = "model" => Len(waits) = n
       /\ inv[i].pc # "model" /\ n > 0 => Len(waits) = n - 1
       /\ n = 0 => waits = <<>>
       /\ inv[i].failed_at = "model" => waits = <<1, 2>> /\ SeqSum(waits) = 3

\* a run whose three attempts failed has waited 1 and then 2 time units
C14_WaitedThree ==
  \E i \in Invocations :
    /\ Done(i)
    /\ inv[i].failed_at = "model"
    /\ \A k \in ModelCalls(i) : inv[i].log[k].res = "timed out"
    /\ inv[i].slept = <<1, 2>>

\* C15: for a response that is one valid JSON object, fenced or not, with
\* or without brace-free commentary around it, validate_json_response
\* returns exactly that object.
C15_ObjectRecovered ==
  \A i \in Invocations : \A k \in ModelCalls(i) :
    inv[i].log[k].msg = "answer" =>
      \A pre \in Preambles, f \in Fences, o \in Objects_json, post \in Postambles :
        reply = Wrap(pre, f, o, post) =>
          /\ inv[i].log[k].res = "object"
          /\ inv[i].parsed = Canon(o, FALSE)

\* C16: a response without an opening or without a closing brace is refused
\* with the unparsable-response error, and whatever is returned is an object.
C16_NoBracesRejected ==
  \A i \in Invocations : \A k \in ModelCalls(i) :
    /\ inv[i].log[k].msg = "answer"
         /\ (str_find(reply, "{") = 0 \/ str_find(reply, "}") = 0)
         => inv[i].log[k].res = "Invalid JSON response from LLM"
    /\ inv[i].log[k].res # "scalar"

\* invocation i ran the dispatcher on the sales file
SalesRun(i) ==
  /\ GotClient(i)
  /\ AllFields(inv[i].event)
  /\ inv[i].event.file_type = "sales_csv"
  /\ inv[i].event.s3_path = P_sales

\* the rows of t, in order, whose cells under the headers qh and ph are numbers
NumericRowSeq(t, qh, ph) ==
  LET IsNumeric(r) == /\ CellUnder(t, r, {qh}).k = "num"
                      /\ CellUnder(t, r, {ph}).k = "num"
  IN SelectSeq([r \in 1..Len(t.rows) |-> r], IsNumeric)

c_qty == <<"q", "t", "y">>

\* the headers of t are Date, Product, Qty, Price in some case and spacing
QtyPriceHeaders(t) ==
  normalize_columns(t.headers) = <<c_date, c_product, c_qty, c_price>>

\* C17: for a sales table headed Date, Product, Qty, Price in any letter
\* case and spacing, the four fields resolve, the extraction does not fail
\* with a schema mismatch, and there is one record per numeric row.
C17_QtyHeaders ==
  \A i \in Invocations :
    SalesRun(i) /\ QtyPriceHeaders(SalesFile) =>
      /\ HeadersResolve(SalesFile)
      /\ inv[i].failed_at # "dispatch"
      /\ inv[i].extracted_data.kind = "sales"
      /\ inv[i].extracted_data.total_records
           = Len(NumericRowSeq(SalesFile, h_Qty, h_PRICE))

\* the canonical fields for which some column of t matches
FieldsResolved(t) ==
  {n \in 1..Len(required) :
     FirstMatch(required[n], normalize_columns(t.headers)) # 0}

\* a finished run of the dispatcher on a sales table in which fewer than 4
\* fields resolve
SchemaMismatchRun(i) ==
  /\ Done(i)
  /\ SalesRun(i)
  /\ Cardinality(FieldsResolved(SalesFile)) < Len(required)

CellDec(cell) == DecE(cell.v, cell.e)

\* C19: once the four columns have resolved the extraction does not fail,
\* and its records are exactly the rows whose quantity and price are both
\* numbers, in input order; a row with a missing or non-numeric quantity or
\* price contributes no record.
C19_RowsSkipped ==
  \A i \in Invocations :
    SalesRun(i) /\ HeadersResolve(SalesFile) =>
      LET rows == NumericRowSeq(SalesFile, h_Quantity, h_Price)
          recs == inv[i].extracted_data.records
      IN /\ inv[i].failed_at # "dispatch"
         /\ Len(recs) = Len(rows)
         /\ \A k \in 1..Len(recs) :
              /\ DecEq(recs[k].quantity,
                       CellDec(CellUnder(SalesFile, rows[k], {h_Quantity})))
              /\ DecEq(recs[k].unit_price,
                       CellDec(CellUnder(SalesFile, rows[k], {h_Price})))

\* the digits of a decimal at a given number of decimal places
Scaled(d, places) == d.v * 10 ^ (places - d.e)

RECURSIVE SumScaled(_, _)
SumScaled(recs, places) ==
  IF recs = <<>> THEN 0
  ELSE Scaled(Head(recs).total_amount, places) + SumScaled(Tail(recs), places)

\* C20: in every result of the sales extraction each record's total_amount
\* equals quantity times unit_price, the result's total_amount equals the
\* sum of the records' totals, total_records is the number of records, and
\* 10 times 25.50 is 255.00.
C20_ExactTotals ==
  \A i \in Invocations :
    SalesRun(i) /\ inv[i].extracted_data.kind = "sales" =>
      LET d == inv[i].extracted_data
      IN /\ d.total_records = Len(d.records)
         /\ \A k \in 1..Len(d.records) :
              LET rec == d.records[k]
              IN /\ ~rec.total_amount.nan
                 /\ Scaled(rec.total_amount, 6)
                      = rec.quantity.v * rec.unit_price.v
                          * 10 ^ (6 - rec.quantity.e - rec.unit_price.e)
                 /\ DecEq(rec.quantity, Dec(10))
                      /\ DecEq(rec.unit_price, DecE(2550, 2))
                      => DecEq(rec.total_amount, DecE(25500, 2))
         /\ ~d.total_amount.nan
         /\ Scaled(d.total_amount, 6) = SumScaled(d.records, 6)

\* C20, on the results in which every quantity and unit_price is a number:
\* the totals are the exact products and the exact sum; a NaN quantity or
\* unit_price makes the record's total and the result's total NaN.
C20_ExactWhereNumeric ==
  \A i \in Invocations :
    SalesRun(i) /\ inv[i].extracted_data.kind = "sales" =>
      LET d == inv[i].extracted_data
          NaNRecords == {k \in 1..Len(d.records) : d.records[k].total_amount.nan}
      IN /\ d.total_records = Len(d.records)
         /\ \A k \in 1..Len(d.records) :
              LET rec == d.records[k]
              IN /\ rec.total_amount.nan <=>
                      rec.quantity.nan \/ rec.unit_price.nan
                 /\ ~rec.total_amount.nan =>
                      Scaled(rec.total_amount, 6)
                        = rec.quantity.v * rec.unit_price.v
                            * 10 ^ (6 - rec.quantity.e - rec.unit_price.e)
                 /\ DecEq(rec.quantity, Dec(10))
                      /\ DecEq(rec.unit_price, DecE(2550, 2))
                      => DecEq(rec.total_amount, DecE(25500, 2))
         /\ d.total_amount.nan <=> NaNRecords # {}
         /\ NaNRecords = {} =>
              Scaled(d.total_amount, 6) = SumScaled(d.records, 6)

\* a result with the records 2 x 5 and 10 x 25.50 and the total 265.00
C20_TwoRecords ==
  \E i \in Invocations :
    /\ SalesRun(i)
    /\ inv[i].pc = "done"
    /\ inv[i].statusCode = 200
    /\ Len(inv[i].extracted_data.records) = 2
    /\ DecEq(inv[i].extracted_data.records[2].total_amount, DecE(25500, 2))
    /\ DecEq(inv[i].extracted_data.total_amount, DecE(26500, 2))

\* the optional key `key` is carried by every record of the result of run i
\* exactly when some column matches the name `opt` by containment
CarriedWhenMatched(i, opt, key) ==
  LET columns == normalize_columns(SalesFile.headers)
      recs == inv[i].extracted_data.records
  IN FirstMatch(opt, columns) # 0 => \A k \in 1..Len(recs) : key \in recs[k].optional

\* C21: customer and payment are resolved by the containment rule of the
\* required fields: a header that contains the name makes every record carry
\* customer_name (payment_mode), and a table without such a header does not
\* fail for that.
C21_OptionalFields ==
  \A i \in Invocations :
    SalesRun(i) /\ HeadersResolve(SalesFile) =>
      /\ inv[i].failed_at # "dispatch"
      /\ CarriedWhenMatched(i, c_customer, "customer_name")
      /\ CarriedWhenMatched(i, c_payment, "payment_mode")

\* C21, second part alone: a sales table whose four required fields resolve
\* does not fail, whether or not it has a customer or payment column, and a
\* column named exactly customer, payment or payment_mode is carried.
C21_ExactNamesCarried ==
  \A i \in Invocations :
    SalesRun(i) /\ HeadersResolve(SalesFile) =>
      LET columns == ColumnNames(normalize_columns(SalesFile.headers))
          recs == inv[i].extracted_data.records
      IN /\ inv[i].failed_at # "dispatch"
         /\ \A k \in 1..Len(recs) :
              /\ "customer_name" \in recs[k].optional <=> c_customer \in columns
              /\ "payment_mode" \in recs[k].optional
                   <=> c_payment \in columns \/ c_payment_mode \in columns

StockFile == bucket[P_stock]

\* invocation i ran the dispatcher on the inventory file
InventoryRun(i) ==
  /\ GotClient(i)
  /\ AllFields(inv[i].event)
  /\ inv[i].event.file_type = "inventory_csv"
  /\ inv[i].event.s3_path = P_stock

CorruptDocumentRun(i) ==
  /\ GotClient(i)
  /\ AllFields(inv[i].event)
  /\ inv[i].event.file_type \in document_types
  /\ inv[i].llm_client # "none"
  /\ inv[i].event.s3_path \in {P_bank, P_docx}
  /\ bucket[inv[i].event.s3_path] = Corrupt

\* C23: when the structural parse of a PDF or DOCX fails, the text handed to
\* the model client is the decoding of the raw bytes, not an empty text, and
\* the extraction goes on to the model call.
C23_FallbackToRawBytes ==
  \A i \in Invocations :
    CorruptDocumentRun(i) =>
      /\ inv[i].failed_at # "dispatch"
      /\ inv[i].capability = "extract_from_text"
      /\ inv[i].text = decode_ignore(bucket[inv[i].event.s3_path])

\* C23, second part alone: a failed structural parse does not abort the
\* extraction; the model client is called next.
C23_ProceedsToModelCall ==
  \A i \in Invocations :
    CorruptDocumentRun(i) =>
      /\ inv[i].failed_at # "dispatch"
      /\ inv[i].capability = "extract_from_text"
      /\ inv[i].pc \notin {"model", "except"} => ModelCalls(i) # {}

\* the step appends a status update with status st to the log of an
\* invocation of the extraction worker that holds the key k
WorkerWrites(k, st) ==
  \E i \in Invocations :
    /\ Len(inv'[i].log) = Len(inv[i].log) + 1
    /\ KeyOf(i)' = k
    /\ inv'[i].log[Len(inv'[i].log)].op = "update_item"
    /\ inv'[i].log[Len(inv'[i].log)].arg = st

\* the step is a run of the upload handler that put the upload record of
\* the key k
UploadHandlerCreates(k) ==
  /\ Len(intake'.responses) = Len(intake.responses) + 1
  /\ intake'.responses[Len(intake'.responses)].recorded
  /\ k = <<intake'.store_id, intake'.upload_id>>

\* C24: status values have disjoint writers: PROCESSING, EXTRACTED and
\* FAILED are written by the extraction worker only, which never writes
\* UPLOADED; the upload handler writes UPLOADED only, when it creates the
\* upload record, and never changes the status of an existing record.
C24_DisjointWriters ==
  [][\A k \in Keys :
       uploads'[k].status # uploads[k].status =>
         \/ /\ uploads'[k].status = "UPLOADED"
            /\ uploads[k].status = ""
            /\ UploadHandlerCreates(k)
         \/ /\ uploads'[k].status \in {"PROCESSING", "EXTRACTED", "FAILED"}
            /\ ~UploadHandlerCreates(k)
            /\ WorkerWrites(k, uploads'[k].status)]_vars

\* an upload was accepted, and its record, created as UPLOADED, was taken to
\* EXTRACTED by the worker
C24_UploadedThenExtracted ==
  \E n \in 1..Len(intake.responses) :
    /\ intake.responses[n].statusCode = 200
    /\ uploads[<<"S1", intake.responses[n].upload_id>>].status = "EXTRACTED"

\* the work items in the queue for the upload id u
WorkItems(u) == {ev \in queue : ev.upload_id = u}

\* the invocations of the extraction worker that were started for upload id u
RunsFor(u) == {i \in Invocations : inv[i].pc # "idle" /\ inv[i].event.upload_id = u}

\* C25: each upload that the upload handler accepts has exactly one work
\* item for its upload_id, and no two invocations of the extraction worker
\* run for the same upload_id.
C25_ExactlyOneWorkItem ==
  \A n \in 1..Len(intake.responses) :
    intake.responses[n].statusCode = 200 =>
      /\ Cardinality(WorkItems(intake.responses[n].upload_id)) = 1
      /\ Cardinality(RunsFor(intake.responses[n].upload_id)) <= 1

\* C25, what the upload handler does ensure: an accepted upload has at most
\* one work item, and exactly one when the invoke call was accepted
C25_AtMostOneWorkItem ==
  \A n \in 1..Len(intake.responses) :
    intake.responses[n].statusCode = 200 =>
      Cardinality(WorkItems(intake.responses[n].upload_id)) <= 1

\* the place of a side effect in the order of the handler: the PROCESSING
\* update, the S3 read, the model calls, the put of the extracted data, the
\* EXTRACTED update, and the FAILED update of the exception handler
Place(entry) ==
  IF entry.op = "update_item"
  THEN (IF entry.arg = "PROCESSING" THEN 1 ELSE IF entry.arg = "EXTRACTED" THEN 5 ELSE 6)
  ELSE IF entry.op = "get_object" THEN 2
  ELSE IF entry.op = "model" THEN 3
  ELSE 4

\* the side effects of invocation i are in the order of the handler
InOrder(i) ==
  LET log == inv[i].log
  IN /\ log # <<>> => Place(log[1]) \in {1, 6}
     /\ \A p \in 2..Len(log) :
          LET here == Place(log[p])
              before == Place(log[p - 1])
          IN \/ here = 2 /\ before = 1
             \/ here = 3 /\ before \in {2, 3}
             \/ here = 4 /\ before \in {2, 3}
             \/ here = 5 /\ before = 4 /\ log[p - 1].res = "ok"
             \/ here = 6 /\ before < 6

\* C26: within one invocation the PROCESSING status write is issued before
\* the S3 read, the S3 read before any model call, any model call before the
\* put of the extracted data, and the EXTRACTED status write only after the
\* put has succeeded.
C26_SideEffectsInOrder == \A i \in Invocations : InOrder(i)

\* an invocation went through all five kinds of side effect, with a model
\* call that was repeated, and returned
C26_AllEffectsIssued ==
  \E i \in Invocations :
    /\ inv[i].pc = "done"
    /\ inv[i].statusCode = 200
    /\ Len(inv[i].log) >= 6
    /\ {Place(inv[i].log[p]) : p \in 1..Len(inv[i].log)} = 1..5

\* the message of the exception validate_json_response raises
Rejected == "Invalid JSON response from LLM"

\* C27: a response the sanitizer rejects is a failed attempt like any other:
\* after a rejected 1st or 2nd response the client waits the backoff and
\* issues the call again, 3 calls at most; the unparsable-response error
\* reaches the caller only when the 3rd response is rejected too; and a
\* parsable response on a later attempt makes the call succeed.
C27_RejectedIsRetried ==
  \A i \in Invocations :
    LET calls == ModelCalls(i)
        n == Cardinality(calls)
        last == inv[i].log[Max(calls)]
    IN n > 0 =>
         /\ n <= max_retries
         /\ last.res = Rejected /\ n < max_retries =>
              /\ inv[i].pc = "model"
              /\ inv[i].attempt = n
              /\ Len(inv[i].slept) = n
              /\ inv[i].slept[n] = 2 ^ (n - 1)
         /\ last.res = Rejected /\ n = max_retries =>
              /\ inv[i].failed_at = "model"
              /\ inv[i].e = Rejected
         /\ inv[i].failed_at = "model" /\ inv[i].e = Rejected =>
              /\ n = max_retries
              /\ last.res = Rejected
         /\ last.res \in Succeeded =>
              /\ inv[i].failed_at # "model"
              /\ inv[i].pc # "model"
              /\ inv[i].extracted_data = LlmData(last.res)

\* two responses were rejected, the third was parsable, and the item was
\* extracted
C27_ThirdResponseParsed ==
  \E i \in Invocations :
    LET calls == ModelCalls(i)
    IN /\ Cardinality(calls) = 3
       /\ \A k \in calls : k # Max(calls) => inv[i].log[k].res = Rejected
       /\ inv[i].log[Max(calls)].res = "object"
       /\ inv[i].pc = "done"
       /\ inv[i].final_status = "EXTRACTED"

\* the column of each canonical field taken by itself: the first header, in
\* column order, that matches it in either direction
FirstMatches(columns) == [n \in 1..Len(required) |-> FirstMatch(required[n], columns)]

\* the records of the rows of t, as pandas reads them, when each field is
\* read from its own first match: the rows whose quantity and price are
\* numbers
FieldwiseRecords(t) ==
  LET columns == normalize_columns(t.headers)
      at == FirstMatches(columns)
      Read(row) == [qty |-> Decimal(row[at[3]]), price |-> Decimal(row[at[4]])]
      kept == SelectSeq(read_csv(t).rows,
                        LAMBDA row : Read(row).qty.ok /\ Read(row).price.ok)
  IN [k \in 1..Len(kept) |->
        [quantity |-> Read(kept[k]).qty.d, unit_price |-> Read(kept[k]).price.d]]

\* the quantity and the unit price of the records invocation i extracted
Extracted(i) ==
  [k \in 1..Len(inv[i].extracted_data.records) |->
     [quantity |-> inv[i].extracted_data.records[k].quantity,
      unit_price |-> inv[i].extracted_data.records[k].unit_price]]

\* a sales run on a table in which every canonical field has a first match
AllFieldsMatch(i) ==
  /\ SalesRun(i)
  /\ \A n \in 1..Len(required) :
       FirstMatches(normalize_columns(SalesFile.headers))[n] # 0

\* C28: for each of date, product, quantity and price the column used is the
\* first header, in column order, that is a substring of the name or contains
\* it, for every field independently, also when one header is the first
\* match of several fields: the table is accepted and the records are read
\* from those columns.
C28_FirstMatchPerField ==
  \A i \in Invocations :
    AllFieldsMatch(i) =>
      /\ inv[i].failed_at # "dispatch"
      /\ Extracted(i) = FieldwiseRecords(SalesFile)

\* C28, what the code does: when the first matches of the four fields are
\* four columns and no other column bears a canonical name, each field is
\* read from its first match.
C28_FirstMatchWhenApart ==
  \A i \in Invocations :
    LET columns == normalize_columns(SalesFile.headers)
        at == FirstMatches(columns)
    IN /\ AllFieldsMatch(i)
       /\ Cardinality({at[n] : n \in 1..Len(required)}) = Len(required)
       /\ \A j \in 1..Len(columns) :
            columns[j] \in {required[n] : n \in 1..Len(required)} =>
              \E n \in 1..Len(required) : at[n] = j /\ required[n] = columns[j]
       => /\ inv[i].failed_at # "dispatch"
          /\ Extracted(i) = FieldwiseRecords(SalesFile)

\* a sales table with its fields apart was extracted into a record
C28_ReadFromFirstMatch ==
  \E i \in Invocations :
    /\ AllFieldsMatch(i)
    /\ inv[i].pc = "done"
    /\ inv[i].final_status = "EXTRACTED"
    /\ Len(inv[i].extracted_data.records) = 2

\* the columns of t that bear the name after the renaming
ColumnsNamed(t, name) ==
  LET columns == normalize_columns(t.headers)
      renamed == rename(columns, column_mapping(columns))
  IN {j \in 1..Len(renamed) : renamed[j] = name}

\* column_mapping gives no canonical field two headers
OneHeaderPerField(t) ==
  LET m == column_mapping(normalize_columns(t.headers))
  IN \A c, d \in DOMAIN m : m[c] = m[d] => c = d

\* a sales run whose table passed the validation of the mapping
ValidatedRun(i) ==
  /\ SalesRun(i)
  /\ SalesFile.kind = "table"
  /\ inv[i].failed_at # "dispatch"

\* C29: the column mapping is one-to-one, and whenever validation passes
\* each of date, product, quantity and price names exactly one column of the
\* renamed table, also when the table has a unit_price and a price header,
\* so that every row with a numeric quantity and price yields its record.
C29_OneColumnPerName ==
  \A i \in Invocations :
    ValidatedRun(i) =>
      /\ OneHeaderPerField(SalesFile)
      /\ \A n \in 1..Len(required) :
           Cardinality(ColumnsNamed(SalesFile, required[n])) = 1
      /\ Extracted(i) = FieldwiseRecords(SalesFile)

\* C29, what the code does ensure: the mapping gives no field two headers
\* and, after validation, every canonical name is borne by some column.
C29_SomeColumnPerName ==
  \A i \in Invocations :
    ValidatedRun(i) =>
      /\ OneHeaderPerField(SalesFile)
      /\ \A n \in 1..Len(required) : ColumnsNamed(SalesFile, required[n]) # {}

\* the invocations that were started on a work item with the key k
StartedOn(k) == {i \in Invocations : inv[i].pc # "idle" /\ KeyOf(i) = k}

\* the status updates of invocation i that the status store accepted
Accepted(i) == {p \in Calls(i, "update_item") : inv[i].log[p].res = "ok"}

\* the upload record that the calls of invocation i by themselves leave
\* behind, from the record rec the item had before
AloneUpload(i, rec) ==
  LET acc == Accepted(i)
      told == {p \in acc : inv[i].log[p].msg # ""}
  IN [status |-> IF acc = {} THEN rec.status ELSE inv[i].log[Max(acc)].arg,
      error_message |-> IF told = {} THEN rec.error_message
                        ELSE inv[i].log[Max(told)].msg]

\* a step changes the upload record or the extracted record of the key k
\* only as a step of an invocation that works on k
OwnWritesOnly ==
  \A k \in Keys :
    uploads'[k] # uploads[k] \/ extracted'[k] # extracted[k] =>
      \E i \in Invocations : inv'[i] # inv[i] /\ KeyOf(i)' = k

\* the records of an item that one invocation works on are those its own
\* calls leave behind, whatever the invocations on other items do
AsIfAlone ==
  \A i \in Invocations :
    KeyOf(i) \in Keys /\ StartedOn(KeyOf(i)) = {i} =>
      /\ uploads[KeyOf(i)]
           = AloneUpload(i, [status |-> "UPLOADED", error_message |-> ""])
      /\ extracted[KeyOf(i)].present = Persisted(i)
      /\ Done(i) => /\ inv[i].final_status = uploads[KeyOf(i)].status
                     /\ inv[i].final_message = uploads[KeyOf(i)].error_message

\* C30: for any interleaving of the steps of two invocations that work on
\* items with different keys, each item's status and persisted record are
\* those of its invocation run alone, and a failure of one item never
\* changes the status or the record of the other.
C30_NoInterference == []AsIfAlone /\ [][OwnWritesOnly]_vars

\* while one invocation is about to write EXTRACTED, its record persisted,
\* an invocation on another item, started later, has failed and returned
C30_OneFailedOneGoesOn ==
  \E i, j \in Invocations :
    /\ i < j
    /\ KeyOf(i) # KeyOf(j)
    /\ KeyOf(i) \in Keys /\ KeyOf(j) \in Keys
    /\ inv[i].pc = "mark_extracted"
    /\ extracted[KeyOf(i)].present
    /\ uploads[KeyOf(i)].status = "PROCESSING"
    /\ inv[j].pc = "done"
    /\ inv[j].final_status = "FAILED"
    /\ ~extracted[KeyOf(j)].present

\* C9, where every canonical name is borne by one column of the renamed
\* table: the run persists one record with total_records = n and the
\* table-parse method, writes PROCESSING then EXTRACTED and never FAILED, and
\* makes no model call.
C9_SalesEndToEndOneColumn ==
  \A i \in Invocations :
    /\ SalesRunReliable(i)
    /\ \A n \in 1..Len(required) :
         Cardinality(ColumnsNamed(SalesFile, required[n])) = 1
    => /\ Cardinality(Calls(i, "put_item")) = 1
       /\ extracted[KeyOf(i)].present
       /\ extracted[KeyOf(i)].data.total_records
            = Cardinality(NumericRows(SalesFile))
       /\ extracted[KeyOf(i)].extraction_method = "csv_parse"
       /\ StatusWrites(i) = <<"PROCESSING", "EXTRACTED">>
       /\ ModelCalls(i) = {}

\* ------------------------------------------------------------- termination
\* the steps of invocation i that call S3 or DynamoDB, once the Lambda
\* runtime has entered its handler
Run(i) ==
  \/ \E o \in Outcomes : mark_processing(i, o)
  \/ \E o \in Outcomes : download_from_s3(i, o)
  \/ \E o \in Outcomes : store_extracted_data(i, o)
  \/ \E o \in Outcomes : mark_extracted(i, o)
  \/ \E o \in Outcomes : handle_exception(i, o)

\* weak fairness of dispatch(i) and of retry_with_backoff(i, o), written out:
\* either step is enabled exactly at its place in the handler, and each
\* changes the invocation, so "always eventually disabled or taken" reads
Computes(i) ==
  \/ []<>(inv[i].pc \notin {"dispatch", "model"})
  \/ []<><<inv[i].pc \in {"dispatch", "model"} /\ inv'[i] # inv[i]>>_vars

\* the concurrent runs where the runtime keeps executing a handler it has
\* entered and every external call returns or fails; whether and when a
\* work item is delivered is left open
SpecLive ==
  Init /\ [][Next]_vars /\ \A i \in Invocations : WF_vars(Run(i)) /\ Computes(i)

\* the status store accepted every status update of invocation i
StoreAccepts(i) ==
  /\ inv[i].bound
  /\ KeyOf(i) \in Keys
  /\ \A p \in Calls(i, "update_item") : inv[i].log[p].res = "ok"

\* at most 3 model calls, and a terminal status at the end of a run whose
\* status updates were all accepted
BoundedAndSettled ==
  \A i \in Invocations :
    /\ Cardinality(ModelCalls(i)) <= max_retries
    /\ Done(i) /\ StoreAccepts(i) => inv[i].final_status \in Terminal

\* C31: every invocation that starts eventually returns, with at most 3
\* model calls, and when the status store accepts writes the status on
\* return is EXTRACTED or FAILED, never PROCESSING.
C31_EventuallyReturns ==
  /\ \A i \in Invocations : (inv[i].pc # "idle") ~> (inv[i].pc = "done")
  /\ []BoundedAndSettled

\* C31, what the handler does ensure: every invocation that starts
\* eventually ends, by returning a response or by raising, with at most 3
\* model calls and a terminal status when its status updates were accepted.
C31_EventuallyEnds ==
  /\ \A i \in Invocations : (inv[i].pc # "idle") ~> Done(i)
  /\ []BoundedAndSettled

\* ------------------------------------------------------ the record envelope
\* the extractor that produced the data invocation i stored: the CSV
\* extractor, with no model call, or a model client, whose answer was taken
ByCsvExtractor(i) ==
  /\ inv[i].extracted_data.kind \in {"sales", "inventory"}
  /\ inv[i].capability = ""
  /\ ModelCalls(i) = {}

ByModelClient(i) ==
  /\ inv[i].extracted_data.kind = "llm"
  /\ inv[i].llm_client \in {"gemini", "openai"}
  /\ \E k \in ModelCalls(i) : inv[i].log[k].res \in Succeeded

\* C32: every persisted record carries the work item's own identifiers
\* (record_id = upload_id, store_id = the item's store_id), the type that
\* the fixed mapping gives the file type, and an extraction method that
\* agrees with the extractor used: csv_parse exactly when the CSV extractor
\* produced the data, llm exactly when a model client produced it.
C32_RecordEnvelope ==
  /\ \A k \in Keys : extracted[k].present =>
       <<extracted[k].store_id, extracted[k].record_id>> = k
  /\ \A i \in Invocations : Persisted(i) =>
       LET rec == extracted[KeyOf(i)]
       IN /\ rec.present
          /\ rec.record_id = inv[i].event.upload_id
          /\ rec.store_id = inv[i].event.store_id
          /\ rec.type = get_data_type(inv[i].event.file_type)
          /\ rec.type \in {"invoice", "receipt", "sales", "inventory", "bank_statement"}
          /\ rec.data = inv[i].extracted_data
          /\ rec.extraction_method \in {"csv_parse", "llm"}
          /\ rec.extraction_method = "csv_parse" <=> ByCsvExtractor(i)
          /\ rec.extraction_method = "llm" <=> ByModelClient(i)

\* an inventory table was parsed and its record stored as csv_parse
C32_InventoryRecordStored ==
  \E i \in Invocations :
    /\ Persisted(i)
    /\ inv[i].event.file_type = "inventory_csv"
    /\ extracted[KeyOf(i)].extraction_method = "csv_parse"
    /\ extracted[KeyOf(i)].type = "inventory"
    /\ ByCsvExtractor(i)

\* ------------------------------------------------- the tabular path and keys
\* invocation i works on a sales or inventory table
Tabular(i) ==
  /\ inv[i].bound
  /\ AllFields(inv[i].event)
  /\ inv[i].event.file_type \in csv_types

\* what invocation record me shows of itself: everything but the client
\* object that get_llm_client handed to it
Shown(me) == [me EXCEPT !.llm_client = "none"]

\* the step of a tabular invocation through get_llm_client and extract_data
\* is the same under every configuration of the provider keys: whichever
\* keys are set the item is routed to the CSV extractor, and what the
\* invocation holds afterwards is a function of the file alone
SameUnderEveryEnv(i) ==
  Tabular(i) /\ inv[i].pc = "dispatch" /\ inv'[i] # inv[i] =>
    LET t == inv[i].event.file_type
        csv == CSVExtractor_extract(inv[i].file_data, t)
    IN /\ \A e \in Envs : extract_data(t, get_llm_client(e)).route = "csv"
       /\ Shown(inv'[i]) =
            IF csv.ok
            THEN [Shown(inv[i]) EXCEPT !.pc = "store", !.extracted_data = csv.data]
            ELSE [Shown(inv[i]) EXCEPT !.pc = "except", !.e = csv.error,
                                       !.failed_at = "dispatch", !.found = csv.found]

\* no other step of the handler reads the configuration or the client, and
\* no step writes them
KeysUnread ==
  /\ env' = env
  /\ \A i \in Invocations :
       inv[i].pc # "dispatch" => inv'[i].llm_client = inv[i].llm_client

\* C33: for a sales_csv or inventory_csv work item the response, the final
\* status and the persisted record are the same whichever provider keys are
\* configured (none, Gemini only, OpenAI only, both), and no model call is
\* made in any of these cases.
C33_TabularNeedsNoProvider ==
  /\ [](\A i \in Invocations : Tabular(i) => ModelCalls(i) = {} /\ inv[i].capability = "")
  /\ [][KeysUnread /\ \A i \in Invocations : SameUnderEveryEnv(i)]_vars

\* a sales table was extracted and stored with no provider key configured
C33_StoredWithoutKeys ==
  \E i \in Invocations :
    /\ Tabular(i)
    /\ ~env.GEMINI_API_KEY /\ ~env.OPENAI_API_KEY
    /\ inv[i].pc = "done"
    /\ inv[i].statusCode = 200
    /\ inv[i].final_status = "EXTRACTED"
    /\ extracted[KeyOf(i)].present

\* ------------------------------------------------------- one terminal write
\* the status updates of invocation i with status st that the store accepted
Written(i, st) == {k \in Issued(i, st) : inv[i].log[k].res = "ok"}

OneTerminalWrite(i) ==
  /\ Cardinality(Calls(i, "put_item")) <= 1
  /\ Written(i, "EXTRACTED") = {} \/ Written(i, "FAILED") = {}
  /\ Cardinality(Written(i, "EXTRACTED") \cup Written(i, "FAILED")) <= 1
  /\ \A p \in Written(i, "EXTRACTED") : \A q \in Issued(i, "FAILED") : q < p

\* C34: an invocation puts at most one record and at most one of its
\* terminal status writes succeeds: never a successful EXTRACTED and a
\* successful FAILED, and no FAILED write after a successful EXTRACTED one.
C34_OneTerminalWrite == \A i \in Invocations : OneTerminalWrite(i)

\* C34 where the extracted data has a length, as every JSON object and
\* every result of the CSV extractor has
C34_OneTerminalWriteSized ==
  \A i \in Invocations : inv[i].extracted_data.sized => OneTerminalWrite(i)

\* ------------------------------------------------------- no unknown records
\* the file types that work items arrive with
EventFileTypes == {ev.file_type : ev \in WellFormed \cup Malformed}

\* C35: no persisted record has type unknown or extraction method unknown:
\* every file type that get_data_type or get_extraction_method maps to
\* unknown is refused by extract_data, with or without a model client,
\* before the record is built.
C35_NoUnknownRecord ==
  /\ \A k \in Keys : extracted[k].present =>
       /\ extracted[k].type # "unknown"
       /\ extracted[k].extraction_method # "unknown"
  /\ \A t \in EventFileTypes :
       get_data_type(t) = "unknown" \/ get_extraction_method(t) = "unknown" =>
         \A c \in {"gemini", "openai", "none"} : extract_data(t, c).route = "raise"
  /\ \A i \in Invocations :
       /\ inv[i].bound
       /\ "unknown" \in {get_data_type(inv[i].event.file_type),
                          get_extraction_method(inv[i].event.file_type)}
       => Calls(i, "put_item") = {} /\ inv[i].pc \notin {"store", "mark_extracted"}

\* a work item of a type that maps to unknown was downloaded and refused,
\* and nothing was stored for it
C35_UnknownRefused ==
  \E i \in Invocations :
    /\ inv[i].pc = "done"
    /\ AllFields(inv[i].event)
    /\ get_data_type(inv[i].event.file_type) = "unknown"
    /\ get_extraction_method(inv[i].event.file_type) = "unknown"
    /\ inv[i].failed_at = "dispatch"
    /\ inv[i].statusCode = 500
    /\ extracted[KeyOf(i)] = NoRecord

\* --------------------------------------------------- trigger after both writes
\* the file of the work item ev is in S3 and its upload record exists
Uploaded(ev) ==
  /\ ev.s3_path \in DOMAIN bucket
  /\ <<ev.store_id, ev.upload_id>> \in Keys
  /\ uploads[<<ev.store_id, ev.upload_id>>].status # ""

\* a step that triggers extraction leaves the object and the UPLOADED record
\* of the new work item behind
TriggersAfterBoth ==
  \A ev \in queue' \ queue :
    /\ ev.s3_path \in DOMAIN bucket'
    /\ uploads'[<<ev.store_id, ev.upload_id>>].status = "UPLOADED"
    /\ extracted'[<<ev.store_id, ev.upload_id>>] = NoRecord

\* C36: the upload handler triggers extraction only after the S3 put and the
\* creation of the upload record (status UPLOADED) have both succeeded, so
\* the worker's PROCESSING write for an upload never happens before that
\* upload's record exists and never for an upload whose file is not in S3.
C36_TriggerAfterBoth ==
  /\ [](\A ev \in queue : Uploaded(ev))
  /\ [](\A i \in Invocations : Issued(i, "PROCESSING") # {} => Uploaded(inv[i].event))
  /\ [][TriggersAfterBoth]_vars
  /\ [][\A i \in Invocations :
          Cardinality(Issued(i, "PROCESSING")) < Cardinality(Issued(i, "PROCESSING"))'
          => Uploaded(inv[i]'.event)]_vars

\* the worker marked an upload PROCESSING that the upload handler had
\* answered with 200
C36_ProcessingAfterUpload ==
  \E i \in Invocations :
    /\ Written(i, "PROCESSING") # {}
    /\ \E r \in 1..Len(intake.responses) :
         /\ intake.responses[r].statusCode = 200
         /\ intake.responses[r].upload_id = inv[i].event.upload_id
    /\ Uploaded(inv[i].event)

\* -------------------------------------------------- rejected without effect
\* the answers of the validation of lines 60-106
Rejections ==
  {"Missing required fields", "Invalid file_type", "Store not found",
   "Invalid base64 file content", "File too large"}

\* what validation finds wrong with the body b when the store lookup ends
\* as o: a field is missing, the type is not allowed, the store is not
\* known, the content is no base64 or is larger than 10 MB
Defective(b, o) ==
  \/ "" \in {b.store_id, b.file_type, b.file_name} \/ ~b.file_content.given
  \/ b.file_type \notin DOMAIN FILE_TYPE_FOLDERS
  \/ ~validate_store(b.store_id, o)
  \/ ~b.file_content.b64
  \/ b.file_content.large

\* the step is a request that the upload handler answers with a rejection
Rejects ==
  /\ Len(intake'.responses) = Len(intake.responses) + 1
  /\ intake'.responses[Len(intake'.responses)].message \in Rejections

\* C37: a request that the upload handler rejects in validation (missing
\* field, file type not allowed, unknown store, invalid base64, file over
\* 10 MB) has no side effect: no object is written to S3, no upload record
\* is created and no extraction is triggered.
C37_RejectedWithoutEffect ==
  /\ [][Rejects =>
          /\ bucket' = bucket /\ uploads' = uploads /\ queue' = queue
          /\ extracted' = extracted /\ inv' = inv
          /\ intake'.responses[Len(intake'.responses)].statusCode \in {400, 404}
          /\ ~intake'.responses[Len(intake'.responses)].recorded]_vars
  /\ [](\A b \in UploadBodies : \A f \in UploadRuns : \A n \in 1..MaxUploads :
          Defective(b, CallOutcome(f, 1)) /\ CallOutcome(f, 1) # "Error" =>
            LET r == upload_run(b, n, f)
            IN /\ r.response.message \in Rejections
               /\ ~r.stored /\ ~r.recorded /\ ~r.triggered)

\* a file over 10 MB was turned down after an upload had been accepted, and
\* the bucket holds the accepted file only
C37_LargeFileTurnedDown ==
  /\ Len(intake.responses) = 2
  /\ intake.responses[1].statusCode = 200
  /\ intake.responses[2].message = "File too large"
  /\ Cardinality(DOMAIN bucket) = 1
  /\ Cardinality({k \in Keys : uploads[k].status # ""}) = 1

\* ------------------------------------------------ downloaded means dispatched
\* the S3 read of invocation i returned the object
Downloaded(i) == \E k \in Calls(i, "get_object") : inv[i].log[k].res = "ok"

ReachesDispatcher(i) ==
  /\ inv[i].pc # "download"
  /\ inv[i].failed_at # "download"
  /\ inv[i].e # "Failed to download file from S3"
  /\ inv[i].file_data = bucket[inv[i].event.s3_path]

\* C38: every file that is downloaded from S3 without error reaches the
\* dispatcher, a file of zero bytes too: the worker reports a download
\* failure only when the S3 read itself failed.
C38_DownloadedReachesDispatcher ==
  \A i \in Invocations :
    /\ Downloaded(i) => ReachesDispatcher(i)
    /\ inv[i].e = "Failed to download file from S3" => ~Downloaded(i)

\* C38 for the files that hold at least one byte
C38_NonEmptyReachesDispatcher ==
  \A i \in Invocations :
    Calls(i, "get_object") # {} /\ inv[i].event.s3_path \in DOMAIN bucket
    /\ bucket[inv[i].event.s3_path].kind # "empty" =>
      /\ Downloaded(i) => ReachesDispatcher(i)
      /\ inv[i].e = "Failed to download file from S3" => ~Downloaded(i)

\* ------------------------------------------------------- exact names suffice
\* the normalised headers of t include each of date, product, quantity and
\* price as it stands
HasExactNames(t) ==
  /\ t.kind = "table"
  /\ \A n \in 1..Len(required) :
       \E j \in 1..Len(t.headers) : normalize_columns(t.headers)[j] = required[n]

SchemaMismatch(i) ==
  /\ inv[i].failed_at = "dispatch"
  /\ inv[i].e = "Missing required columns"

\* C39: a sales table whose normalised headers include the four exact names
\* date, product, quantity and price never fails with a schema mismatch,
\* whatever other columns it has and in whatever order the columns appear.
C39_ExactNamesSuffice ==
  \A i \in Invocations :
    SalesRun(i) /\ HasExactNames(SalesFile) =>
      /\ ~SchemaMismatch(i)
      /\ HeadersResolve(SalesFile)

\* C39 for the tables in which no other header comes before the exact names
\* and matches two of them
C39_ExactNamesFirstMatch ==
  \A i \in Invocations :
    /\ SalesRun(i)
    /\ HasExactNames(SalesFile)
    /\ \A n, m \in 1..Len(required) :
         n # m => FirstMatches(normalize_columns(SalesFile.headers))[n]
                    # FirstMatches(normalize_columns(SalesFile.headers))[m]
    => ~SchemaMismatch(i) /\ HeadersResolve(SalesFile)

====
